---- MODULE Spec2Model ----
(***************************************************************************)
(* Model of pywal's AdvancedCache (src/pywal/cache.py): the sqlite table   *)
(* cache_entries, the scheme files under schemes_dir, the in-memory        *)
(* CacheStats and the operations get, put, cleanup, deduplicate,           *)
(* _remove_entry and clear_all.                                            *)
(*                                                                         *)
(* put is modelled step by step (open, dump, close and stat, insert) so    *)
(* that the states a crash can leave behind are states of the model; the   *)
(* other operations run to completion in one step, as they do in the       *)
(* single-threaded program.  Changes made from outside the program (a      *)
(* scheme file deleted, truncated or overwritten, the scheme directory     *)
(* becoming read-only) happen between calls; the database can become       *)
(* unreachable at any moment.                                              *)
(*                                                                         *)
(* Further down: generate_cache_key on image files that change, cleanup    *)
(* and deduplicate run next to a put of another thread, and                *)
(* ParallelColorProcessor.process_image_batch (src/pywal/parallel.py) with *)
(* its worker threads.                                                     *)
(***************************************************************************)
EXTENDS Integers, Sequences, FiniteSets, TLC

VARIABLES
    rows,    \* cache_entries: key -> row, defined exactly on the stored keys
    files,   \* scheme files: path -> content, defined on the existing files
    stats,   \* self.stats (in memory, lost with the process)
    now,     \* time.time(), in seconds
    pc,      \* position of the put in progress, "idle" between calls
    cur,     \* locals of the put in progress
    ret,     \* the call that has just returned or raised (cleared by any
             \* step of the world outside)
    dbUp,    \* sqlite3 can open and query cache.db
    roDir,   \* the scheme directory is read-only: no file in it can be
             \* created or unlinked
    images,  \* the image files: path -> content, size, modification time
             \* and what the process may do with the file
    pstats,  \* ParallelColorProcessor.stats
    ccache,  \* the scheme files colors.get keeps in CACHE_DIR:
             \* <<image, backend>> -> content, defined on the existing files
    works,   \* the <<image, backend>> pairs for which the backend produces
             \* a scheme (every other pair raises an Exception)
    tasks,   \* the futures of the batch in progress: image -> position and
             \* locals of _process_single_image
    batch,   \* the process_image_batch call: phase, backends, results
    events,  \* how often each counter update of the batch was executed
    maint,   \* the cleanup or deduplicate call that another thread runs
             \* one statement at a time: position and locals
    busy     \* a connection of another process is in the middle of reading
             \* cache.db: statements run, a commit waits out its timeout
             \* and fails with "database is locked"

\* the state of the batch processor
procVars == <<pstats, ccache, works, tasks, batch, events>>

\* what the operations of the cache never write
restVars == <<images, procVars, maint, busy>>

vars == <<rows, files, stats, now, pc, cur, ret, dbUp, roDir, images,
          pstats, ccache, works, tasks, batch, events, maint, busy>>

(***************************************************************************)
(* Bounds and input domains.                                               *)
(***************************************************************************)
MaxTicks == 1      \* the clock advances at most this many hours
MaxAccess == 1     \* a row is hit at most this many times
MaxGets == 2       \* get calls counted by one process
MaxPuts == 1       \* successful puts counted by one process
MaxRepeats == 2    \* the same generate_cache_key call, made in a row

Hour == 3600
Day == 24 * 3600
MiB == 1024 * 1024
HardCeiling == 1000

Keys == {"k1", "k2"}
EvictKeys == {"k1", "k2", "k3"}
A1 == [color0 |-> "#000000"]
A2 == [color0 |-> "#ffffff", color1 |-> "#ff0000"]
Artifacts == {A1, A2}
A3 == [color0 |-> "#000000", color1 |-> "#111111", color2 |-> "#222222"]
FieldOrder == <<"color0", "color1", "color2">>

\* img_path arguments of put: none, or an image
ImgPaths == {"", "a.png"}

\* max_size_mb * 1024 * 1024 for max_size_mb = 0, 60/2^20 and the default 100
SizeLimits == {0, 60, 100 * MiB}
AgeDays == {1, 30}
KeepCounts == {0, 1, 50}

NoPath == <<>>

(***************************************************************************)
(* Serialisation: json.dump / json.load and gzip, as token sequences.      *)
(***************************************************************************)
Fields(A) == SelectSeq(FieldOrder, LAMBDA f : f \in DOMAIN A)

\* json.dump(data, f): "{", one token per member, "}"
json_dumps(A) ==
    <<<<"{">>>> \o [i \in 1..Len(Fields(A)) |-> <<Fields(A)[i], A[Fields(A)[i]]>>]
               \o <<<<"}">>>>

WellFormed(body) ==
    /\ Len(body) >= 2
    /\ body[1] = <<"{">>
    /\ body[Len(body)] = <<"}">>
    /\ \A i \in 2..(Len(body) - 1) : Len(body[i]) = 2

\* json.load(f) of a well-formed document
json_loads(body) ==
    [f \in {body[i][1] : i \in 2..(Len(body) - 1)} |->
        body[CHOOSE i \in 2..(Len(body) - 1) :
                /\ body[i][1] = f
                /\ \A j \in (i + 1)..(Len(body) - 1) : body[j][1] # f][2]]

\* file contents: kind "text" (UTF-8 text), "gzip" (a gzip stream, eos says
\* whether its end-of-stream marker was written) or "bytes" (neither)
EmptyFile == [kind |-> "text", body |-> <<>>, eos |-> TRUE]
TextFile(body) == [kind |-> "text", body |-> body, eos |-> TRUE]
GzipFile(body, eos) == [kind |-> "gzip", body |-> body, eos |-> eos]
Garbage == [kind |-> "bytes", body |-> <<>>, eos |-> TRUE]

\* (variant of Stored: compress is ignored and plain text is written)
StoredAlwaysPlain(A, compress) == TextFile(json_dumps(A))

\* what put writes for data A
Stored(A, compress) ==
    IF compress THEN GzipFile(json_dumps(A), TRUE) ELSE TextFile(json_dumps(A))

Max2(x, y) == IF x >= y THEN x ELSE y
Min2(x, y) == IF x <= y THEN x ELSE y

\* os.stat(cache_file).st_size of a closed file: indent=2 text, or the gzip
\* stream of the compact text (sizes as the library produces them for
\* documents of one, two and three members in a file named k1.json.gz: the
\* third member repeats what the stream already holds and takes 7 bytes)
NumPairs(body) == Cardinality({i \in 1..Len(body) : Len(body[i]) = 2})
st_size(c) ==
    IF c.kind = "gzip"
    THEN IF NumPairs(c.body) <= 2 THEN 42 + 9 * NumPairs(c.body) ELSE 67
    ELSE IF Len(c.body) = 0 THEN 0
    ELSE 2 + 23 * NumPairs(c.body)

\* len(json.dumps(data, indent=2)), line 273: the text put writes when
\* compress is off
uncompressed_size(A) == st_size(TextFile(json_dumps(A)))

CachePath(key, compress) == <<key, IF compress THEN "json.gz" ELSE "json">>

\* an image file: access is "read" (os.stat and open succeed), "stat"
\* (os.stat succeeds, open raises PermissionError) or "none" (os.stat and
\* open raise OSError); mtime is st_mtime in milliseconds
Image(content, size, mtime, access) ==
    [content |-> content, size |-> size, mtime |-> mtime, access |-> access]

\* the images next to the cache: two with the same bytes, one with other
\* bytes, one that cannot be opened; any other path names no file
Disk ==
    [p \in {"a.png", "copy_of_a.png", "b.png", "locked.png"} |->
        CASE p = "b.png" -> Image("B", 20, 2000, "read")
          [] p = "locked.png" -> Image("A", 10, 1000, "stat")
          [] OTHER -> Image("A", 10, 1000, "read")]

\* hashlib.md5 over the first and last chunk, hexdigest()[:12]
md5_12(content) ==
    IF content = "A" THEN "a1a1a1a1a1a1" ELSE "b2b2b2b2b2b2"

\* _get_image_hash(img_path), lines 143-161
image_hash_of(img) ==
    IF img \in DOMAIN images /\ images[img].access = "read"
    THEN md5_12(images[img].content)
    ELSE "unknown"

\* _get_image_hash(img_path) if img_path else ""
get_image_hash(img) ==
    IF img = "" THEN "" ELSE image_hash_of(img)

(***************************************************************************)
(* The load in get (lines 190-196): the outcome is the document, an        *)
(* exception the handler at line 213 catches, or one it does not.          *)
(***************************************************************************)
Loaded(A) == [tag |-> "ok", data |-> <<A>>, exc |-> ""]
Caught(e) == [tag |-> "caught", data |-> <<>>, exc |-> e]
Escapes(e) == [tag |-> "raised", data |-> <<>>, exc |-> e]

ParseText(body) ==
    IF WellFormed(body) THEN Loaded(json_loads(body))
    ELSE Caught("JSONDecodeError")

LoadFile(c, compressed) ==
    IF compressed
    THEN CASE c.kind = "gzip" /\ c.eos -> ParseText(c.body)
           [] c.kind = "gzip" /\ ~c.eos -> Escapes("EOFError")
           [] c.kind = "text" /\ Len(c.body) = 0 -> Caught("JSONDecodeError")
           [] OTHER -> Caught("BadGzipFile")
    ELSE CASE c.kind = "text" -> ParseText(c.body)
           [] OTHER -> Escapes("UnicodeDecodeError")

(***************************************************************************)
(* Helpers on partial functions.                                           *)
(***************************************************************************)
Without(f, x) == [y \in (DOMAIN f) \ {x} |-> f[y]]
With(f, x, v) == [y \in (DOMAIN f) \cup {x} |-> IF y = x THEN v ELSE f[y]]

RECURSIVE SumSizes(_, _)
SumSizes(rs, ks) ==
    IF ks = {} THEN 0
    ELSE LET k == CHOOSE x \in ks : TRUE
         IN rs[k].size + SumSizes(rs, ks \ {k})

TotalSize(rs) == SumSizes(rs, DOMAIN rs)

\* CacheStats(), lines 40-48.  avg_access_time is "0.0" or "positive": get
\* halves the sum of the old average and the time the call took, and the
\* call takes time.  most_accessed is a sequence of <<key, access_count>>,
\* backend_usage a function from backend to count.
NewStats == [hit_count |-> 0, miss_count |-> 0, cleanup_count |-> 0,
             total_entries |-> 0, total_size |-> 0,
             compression_saved |-> 0, avg_access_time |-> "0.0",
             most_accessed |-> <<>>, backend_usage |-> <<>>]

\* a finished call: its name and key, ok (the boolean returned by put and
\* clear_all; FALSE for a get that an exception left), the document
\* returned by get or stored by put, the exception that left the call, the
\* count returned by cleanup and deduplicate, cleanup's arguments, and for
\* get the return statement it took; for generate_cache_key the string it
\* hashed (pre) and the image file as os.stat and open found it (seen)
\* (the actions that use pre or seen for another call say so)
NoCall == [op |-> "none", key |-> "", ok |-> TRUE, value |-> <<>>,
           raised |-> "", n |-> 0, args |-> <<>>, via |-> "",
           pre |-> <<>>, seen |-> <<>>]
Call(op, key, ok, value, raised, n) ==
    [op |-> op, key |-> key, ok |-> ok, value |-> value,
     raised |-> raised, n |-> n, args |-> <<>>, via |-> "",
     pre |-> <<>>, seen |-> <<>>]
\* for a get on an instance that has made no call yet, pre is the pre of
\* its construction
GetRet(k, via, value, raised) ==
    [Call("get", k, raised = "", value, raised, 0) EXCEPT
        !.via = via,
        !.pre = IF ret.op = "__init__" THEN ret.pre ELSE <<>>]

\* prev is what cache_file held when put opened it (<<>>: no such file)
NoPut == [key |-> "", data |-> <<>>, compress |-> FALSE, image_hash |-> "",
          size |-> 0, prev |-> <<>>]

(***************************************************************************)
(* _remove_entry(key, file_path): the DELETE and the unlink run inside one *)
(* connection context, so an OSError from os.unlink rolls the DELETE back. *)
(***************************************************************************)
\* (variant of RemoveEntry: the DELETE is only issued when the file exists)
RemoveEntryOnlyWithFile(rs, fs, key, file_path) ==
    LET fp == IF file_path # NoPath THEN file_path
              ELSE IF key \in DOMAIN rs THEN rs[key].file_path
              ELSE NoPath
    IN  IF ~dbUp THEN [rows |-> rs, files |-> fs, ok |-> FALSE]
        ELSE IF fp # NoPath /\ fp \in DOMAIN fs
        THEN IF roDir THEN [rows |-> rs, files |-> fs, ok |-> FALSE]
             ELSE [rows |-> Without(rs, key), files |-> Without(fs, fp),
                   ok |-> TRUE]
        ELSE [rows |-> rs, files |-> fs, ok |-> TRUE]

\* (variant of RemoveEntry: a key that no row names is reported as a failure)
RemoveEntryNeedsRow(rs, fs, key, file_path) ==
    LET fp == IF file_path # NoPath THEN file_path
              ELSE IF key \in DOMAIN rs THEN rs[key].file_path
              ELSE NoPath
    IN  IF ~dbUp \/ key \notin DOMAIN rs
        THEN [rows |-> rs, files |-> fs, ok |-> FALSE]
        ELSE IF fp # NoPath /\ fp \in DOMAIN fs
        THEN IF roDir THEN [rows |-> rs, files |-> fs, ok |-> FALSE]
             ELSE [rows |-> Without(rs, key), files |-> Without(fs, fp),
                   ok |-> TRUE]
        ELSE [rows |-> Without(rs, key), files |-> fs, ok |-> TRUE]

RemoveEntry(rs, fs, key, file_path) ==
    LET fp == IF file_path # NoPath THEN file_path
              ELSE IF key \in DOMAIN rs THEN rs[key].file_path
              ELSE NoPath
    IN  IF ~dbUp THEN [rows |-> rs, files |-> fs, ok |-> FALSE]
        ELSE IF fp # NoPath /\ fp \in DOMAIN fs
        THEN IF roDir THEN [rows |-> rs, files |-> fs, ok |-> FALSE]
             ELSE IF busy
             THEN \* the commit on leaving the with block fails after the
                  \* unlink: the DELETE is rolled back
                  [rows |-> rs, files |-> Without(fs, fp), ok |-> FALSE]
             ELSE [rows |-> Without(rs, key), files |-> Without(fs, fp),
                   ok |-> TRUE]
        ELSE IF busy /\ key \in DOMAIN rs
        THEN [rows |-> rs, files |-> fs, ok |-> FALSE]
        ELSE [rows |-> Without(rs, key), files |-> fs, ok |-> TRUE]

(***************************************************************************)
(* ParallelColorProcessor.__init__ (src/pywal/parallel.py, lines 23-38)    *)
(* and the state of a processor on which no batch runs.                    *)
(***************************************************************************)
BackendNames == {"wal", "colorz"}

NewPStats ==
    [images_processed |-> 0, cache_hits |-> 0, cache_misses |-> 0,
     backend_attempts |-> [b \in BackendNames |-> 0],
     backend_successes |-> [b \in BackendNames |-> 0]]

\* the counter updates executed so far
NoEvents ==
    [cache_hits |-> 0, cache_misses |-> 0,
     backend_attempts |-> [b \in BackendNames |-> 0],
     backend_successes |-> [b \in BackendNames |-> 0]]

IdleBatch ==
    [phase |-> "idle", backends |-> <<>>, results |-> [x \in {} |-> 0],
     before |-> [x \in {} |-> 0]]

NoBatch ==
    /\ pstats = NewPStats
    /\ ccache = [x \in {} |-> 0]
    /\ works = {}
    /\ tasks = [x \in {} |-> 0]
    /\ batch = IdleBatch
    /\ events = NoEvents

\* no cleanup or deduplicate call is in progress; of a call in progress:
\* op and pc, the rows fetched and not yet visited (todo), the image hashes
\* fetched and not yet looked up (hashes), and cleanup's total_size,
\* size_freed, cleanup_count, max_size_bytes, max_age_seconds, current_time
NoMaint ==
    [op |-> "", pc |-> "idle", todo |-> <<>>, hashes |-> {}, total |-> 0,
     freed |-> 0, count |-> 0, S |-> 0, age |-> 0, t |-> 0, args |-> <<>>]

(***************************************************************************)
(* Construction.                                                           *)
(***************************************************************************)
Init ==
    /\ rows = [k \in {} |-> 0]
    /\ files = [p \in {} |-> 0]
    /\ stats = NewStats
    /\ now = 0
    /\ pc = "idle"
    /\ cur = NoPut
    /\ ret = NoCall
    /\ dbUp = TRUE
    /\ roDir = FALSE
    /\ busy = FALSE
    /\ images = Disk
    /\ NoBatch
    /\ maint = NoMaint

(***************************************************************************)
(* get(cache_key)                                                          *)
(***************************************************************************)
\* (variant of Miss: the miss is counted twice)
MissCountedTwice == [stats EXCEPT !.miss_count = @ + 2]

\* self.stats.miss_count += 1
Miss == [stats EXCEPT !.miss_count = @ + 1]

\* (variant of Touched: the UPDATE has no WHERE clause)
TouchedEveryRow(rs, key) ==
    [j \in DOMAIN rs |-> [rs[j] EXCEPT !.last_accessed = now,
                                       !.access_count = rs[key].access_count + 1]]

\* UPDATE cache_entries SET last_accessed = ?, access_count = ? WHERE key = ?
\* with (time.time(), access_count + 1, cache_key), lines 199-203
Touched(rs, key) ==
    [rs EXCEPT ![key].last_accessed = now, ![key].access_count = @ + 1]

Get(k) ==
    /\ UNCHANGED restVars
    /\ pc = "idle"
    /\ stats.hit_count + stats.miss_count < MaxGets
    /\ UNCHANGED <<now, pc, cur, dbUp, roDir>>
    /\ IF ~dbUp
       THEN \* sqlite3.Error, lines 219-222
            /\ stats' = Miss
            /\ ret' = GetRet(k, "db_error", <<>>, "")
            /\ UNCHANGED <<rows, files>>
       ELSE IF k \notin DOMAIN rows
       THEN \* lines 177-179
            /\ stats' = Miss
            /\ ret' = GetRet(k, "no_row", <<>>, "")
            /\ UNCHANGED <<rows, files>>
       ELSE IF rows[k].file_path \notin DOMAIN files
       THEN \* lines 184-187
            LET r == RemoveEntry(rows, files, k, NoPath)
            IN  /\ rows' = r.rows
                /\ files' = r.files
                /\ stats' = Miss
                /\ ret' = GetRet(k, "no_file", <<>>, "")
       ELSE LET out == LoadFile(files[rows[k].file_path], rows[k].compressed)
            IN  CASE out.tag = "ok" /\ ~busy ->
                       \* lines 198-211
                       /\ rows[k].access_count < MaxAccess
                       /\ rows' = Touched(rows, k)
                       /\ stats' = [stats EXCEPT !.hit_count = @ + 1,
                                                 !.avg_access_time = "positive"]
                       /\ ret' = GetRet(k, "hit", out.data, "")
                       /\ UNCHANGED files
                  [] out.tag = "ok" /\ busy ->
                       \* lines 198-211, then the commit on leaving the with
                       \* block of line 170 fails: the UPDATE is rolled
                       \* back, the return of line 211 is given up and the
                       \* handler of lines 219-222 runs
                       /\ rows[k].access_count < MaxAccess
                       /\ stats' = [stats EXCEPT !.hit_count = @ + 1,
                                                 !.avg_access_time = "positive",
                                                 !.miss_count = @ + 1]
                       /\ ret' = GetRet(k, "commit_failed", <<>>, "")
                       /\ UNCHANGED <<rows, files>>
                  [] out.tag = "caught" ->
                       \* lines 213-217
                       LET r == RemoveEntry(rows, files, k, NoPath)
                       IN  /\ rows' = r.rows
                           /\ files' = r.files
                           /\ stats' = Miss
                           /\ ret' = GetRet(k, "load_failed", <<>>, "")
                  [] OTHER ->
                       \* not an OSError, JSONDecodeError or BadGzipFile, and
                       \* not an sqlite3.Error: leaves get
                       /\ ret' = GetRet(k, "", <<>>, out.exc)
                       /\ UNCHANGED <<rows, files, stats>>

(***************************************************************************)
(* put(cache_key, data, img_path, backend, compress), lines 233-284.       *)
(* The column created_time is written here and read by no operation of the *)
(* cache; the model leaves it out of the row.  Every put of the model      *)
(* leaves backend at its default.                                          *)
(***************************************************************************)
\* (variant of PutFailed: the failed put reports success)
PutFailedReportsSuccess(k) == Call("put", k, TRUE, <<>>, "", 0)

\* return False, line 284
PutFailed(k) == Call("put", k, FALSE, <<>>, "", 0)

\* lines 235-244: open(cache_file, "w") / gzip.open(cache_file, "wt")
\* creates the file or truncates the one that is there
PutOpen(k, A, img, compress) ==
    /\ UNCHANGED restVars
    /\ pc = "idle"
    /\ stats.total_entries < MaxPuts
    /\ UNCHANGED <<rows, stats, now, dbUp, roDir>>
    /\ IF roDir /\ CachePath(k, compress) \notin DOMAIN files
       THEN \* OSError: no file can be created in the directory
            /\ ret' = PutFailed(k)
            /\ UNCHANGED <<files, pc, cur>>
       ELSE /\ files' = With(files, CachePath(k, compress), EmptyFile)
            /\ cur' = [key |-> k, data |-> <<A>>, compress |-> compress,
                       image_hash |-> get_image_hash(img), size |-> 0,
                       prev |-> IF CachePath(k, compress) \in DOMAIN files
                                THEN <<files[CachePath(k, compress)]>>
                                ELSE <<>>]
            /\ pc' = "dump"
            /\ ret' = NoCall

\* what is on disk after n tokens were written
Written(body, n, compress, closed) ==
    IF compress
    THEN IF n = 0 /\ ~closed THEN EmptyFile
         ELSE GzipFile(SubSeq(body, 1, n), closed)
    ELSE TextFile(SubSeq(body, 1, n))

\* the numbers of tokens after which a dump can stop short: none, or all
\* but the last (every proper prefix in between reads back the same way)
StopPoints(body) == {0, Len(body) - 1}

\* lines 242 / 245: json.dump writes the document piece by piece; it stops
\* with TypeError, ValueError or OSError before it is complete, and the
\* with statement then closes the file
PutDump ==
    /\ UNCHANGED restVars
    /\ pc = "dump"
    /\ UNCHANGED <<rows, stats, now, dbUp, roDir>>
    /\ LET body == json_dumps(cur.data[1])
           path == CachePath(cur.key, cur.compress)
       IN  \/ \E n \in StopPoints(body) :
                /\ files' = With(files, path,
                                 Written(body, n, cur.compress, TRUE))
                /\ pc' = "idle"
                /\ cur' = NoPut
                /\ ret' = PutFailed(cur.key)
           \/ \E n \in StopPoints(body) \ {0} :
                /\ files' = With(files, path,
                                 Written(body, n, cur.compress, FALSE))
                /\ pc' = "close"
                /\ UNCHANGED <<cur, ret>>

\* end of the with block, then os.stat (line 248)
PutClose ==
    /\ UNCHANGED restVars
    /\ pc = "close"
    /\ UNCHANGED <<rows, stats, now, ret, dbUp, roDir>>
    /\ LET path == CachePath(cur.key, cur.compress)
           done == Stored(cur.data[1], cur.compress)
       IN  /\ files' = With(files, path, done)
           /\ cur' = [cur EXCEPT !.size = st_size(done)]
           /\ pc' = "insert"

\* the row put registers
NewRow(key, compress, size, image_hash, t) ==
    [file_path |-> CachePath(key, compress),
     size |-> size,
     last_accessed |-> t,
     access_count |-> 0,
     image_hash |-> image_hash,
     backend |-> "unknown",
     compressed |-> compress]

\* (variant of Replace: ON CONFLICT keeps the counters of the old row)
ReplaceKeepsCounters(rs, key, row) ==
    IF key \in DOMAIN rs
    THEN With(rs, key, [row EXCEPT !.access_count = rs[key].access_count,
                                   !.last_accessed = rs[key].last_accessed])
    ELSE With(rs, key, row)

\* INSERT OR REPLACE INTO cache_entries
Replace(rs, key, row) == With(rs, key, row)

\* lines 253-280: INSERT OR REPLACE, then the counters
PutInsert ==
    /\ UNCHANGED restVars
    /\ pc = "insert"
    /\ pc' = "idle"
    /\ cur' = NoPut
    /\ UNCHANGED <<files, now, dbUp, roDir>>
    /\ IF ~dbUp \/ busy
       THEN \* sqlite3.Error from connect, or from the commit on leaving
            \* the with block
            /\ ret' = PutFailed(cur.key)
            /\ UNCHANGED <<rows, stats>>
       ELSE /\ rows' = Replace(rows, cur.key,
                               NewRow(cur.key, cur.compress, cur.size,
                                      cur.image_hash, now))
            /\ stats' = [stats EXCEPT
                          !.total_entries = @ + 1,
                          !.total_size = @ + cur.size,
                          !.compression_saved =
                              IF cur.compress
                              THEN @ + Max2(0, uncompressed_size(cur.data[1])
                                                  - cur.size)
                              ELSE @]
            /\ ret' = Call("put", cur.key, TRUE, cur.data, "", 0)

(***************************************************************************)
(* cleanup(max_size_mb, max_age_days, keep_most_accessed), lines 286-360.  *)
(* S is max_size_mb * 1024 * 1024.  ORDER BY leaves the order of rows with *)
(* equal sort keys open: every order sqlite may produce is a behaviour.    *)
(***************************************************************************)
\* (variant of MostAccessedFirst: ORDER BY access_count ASC, last_accessed ASC)
LeastAccessedFirst(a, b) ==
    \/ rows[a].access_count < rows[b].access_count
    \/ /\ rows[a].access_count = rows[b].access_count
       /\ rows[a].last_accessed <= rows[b].last_accessed

\* ORDER BY access_count DESC, last_accessed DESC
MostAccessedFirst(a, b) ==
    \/ rows[a].access_count > rows[b].access_count
    \/ /\ rows[a].access_count = rows[b].access_count
       /\ rows[a].last_accessed >= rows[b].last_accessed

\* (variant of OldestFirst: ORDER BY last_accessed DESC, access_count DESC)
NewestFirst(a, b) ==
    \/ rows[a].last_accessed > rows[b].last_accessed
    \/ /\ rows[a].last_accessed = rows[b].last_accessed
       /\ rows[a].access_count >= rows[b].access_count

\* ORDER BY last_accessed ASC, access_count ASC
OldestFirst(a, b) ==
    \/ rows[a].last_accessed < rows[b].last_accessed
    \/ /\ rows[a].last_accessed = rows[b].last_accessed
       /\ rows[a].access_count <= rows[b].access_count

\* the orders in which ORDER BY may return the rows of the keys ks
SortedSeqs(ks, order) ==
    {s \in [1..Cardinality(ks) -> ks] :
        /\ \A i, j \in 1..Cardinality(ks) : i # j => s[i] # s[j]
        /\ \A i, j \in 1..Cardinality(ks) :
              i < j => IF order = "most_accessed_first"
                       THEN MostAccessedFirst(s[i], s[j])
                       ELSE OldestFirst(s[i], s[j])}

\* LIMIT n of sqlite: a negative n is no limit
Limit(s, n) ==
    IF n < 0 \/ n >= Len(s) THEN {s[i] : i \in 1..Len(s)}
    ELSE {s[i] : i \in 1..n}

\* lines 327-350: one pass over the candidates fetched at line 324; st is
\* [rows, files, freed, count]
\* (variant of Walk: the bytes of a removed entry are subtracted twice)
RECURSIVE WalkFreedTwice(_, _, _, _, _, _)
WalkFreedTwice(cands, i, st, total_size, S, max_age_seconds) ==
    IF i > Len(cands) THEN st
    ELSE LET k == cands[i]
             should_remove ==
                 \/ now - rows[k].last_accessed > max_age_seconds
                 \/ total_size - st.freed > S
             r == RemoveEntry(st.rows, st.files, k, rows[k].file_path)
             st2 == IF should_remove /\ r.ok
                    THEN [rows |-> r.rows, files |-> r.files,
                          freed |-> st.freed + 2 * rows[k].size,
                          count |-> st.count + 1]
                    ELSE st
         IN  WalkFreedTwice(cands, i + 1, st2, total_size, S, max_age_seconds)

RECURSIVE Walk(_, _, _, _, _, _)
Walk(cands, i, st, total_size, S, max_age_seconds) ==
    IF i > Len(cands) THEN st
    ELSE LET k == cands[i]
             should_remove ==
                 \/ now - rows[k].last_accessed > max_age_seconds
                 \/ total_size - st.freed > S
             r == RemoveEntry(st.rows, st.files, k, rows[k].file_path)
             st2 == IF should_remove /\ r.ok
                    THEN [rows |-> r.rows, files |-> r.files,
                          freed |-> st.freed + rows[k].size,
                          count |-> st.count + 1]
                    ELSE st
         IN  Walk(cands, i + 1, st2, total_size, S, max_age_seconds)

Cleanup(S, max_age_days, keep_most_accessed) ==
    /\ UNCHANGED restVars
    /\ pc = "idle"
    /\ UNCHANGED <<now, pc, cur, dbUp, roDir>>
    /\ IF ~dbUp \/ (TotalSize(rows) <= S /\ Cardinality(DOMAIN rows) < HardCeiling)
       THEN \* sqlite3.Error (line 357), or nothing to do (line 307)
            /\ ret' = [Call("cleanup", "", TRUE, <<>>, "", 0) EXCEPT
                          !.args = <<S, max_age_days, keep_most_accessed>>]
            /\ UNCHANGED <<rows, files, stats>>
       ELSE \E top \in SortedSeqs(DOMAIN rows, "most_accessed_first") :
            \E cands \in SortedSeqs((DOMAIN rows) \ Limit(top, keep_most_accessed),
                                    "oldest_first") :
                LET st == Walk(cands, 1,
                               [rows |-> rows, files |-> files,
                                freed |-> 0, count |-> 0],
                               TotalSize(rows), S, max_age_days * 24 * 3600)
                IN  /\ rows' = st.rows
                    /\ files' = st.files
                    /\ stats' = [stats EXCEPT !.cleanup_count = @ + st.count]
                    /\ ret' = [Call("cleanup", "", TRUE, <<>>, "", st.count)
                               EXCEPT !.args = <<S, max_age_days,
                                                 keep_most_accessed>>]

(***************************************************************************)
(* deduplicate(), lines 417-457                                            *)
(***************************************************************************)
Group(h) == {k \in DOMAIN rows : rows[k].image_hash = h}

\* WHERE image_hash != '' GROUP BY image_hash HAVING count > 1
DupHashes ==
    {h \in {rows[k].image_hash : k \in DOMAIN rows} :
        h # "" /\ Cardinality(Group(h)) > 1}

\* (variant of MostRecent: ORDER BY last_accessed ASC)
LeastRecent(h) ==
    {k \in Group(h) :
        \A j \in Group(h) : rows[k].last_accessed <= rows[j].last_accessed}

\* entries[0] of ORDER BY last_accessed DESC
MostRecent(h) ==
    {k \in Group(h) :
        \A j \in Group(h) : rows[k].last_accessed >= rows[j].last_accessed}

\* _remove_entry on every key of ks; st is [rows, files, count]
RECURSIVE RemoveAll(_, _)
RemoveAll(ks, st) ==
    IF ks = {} THEN st
    ELSE LET k == CHOOSE x \in ks : TRUE
             r == RemoveEntry(st.rows, st.files, k, rows[k].file_path)
         IN  RemoveAll(ks \ {k},
                       IF r.ok THEN [rows |-> r.rows, files |-> r.files,
                                     count |-> st.count + 1]
                       ELSE st)

Deduplicate ==
    /\ UNCHANGED restVars
    /\ pc = "idle"
    /\ UNCHANGED <<stats, now, pc, cur, dbUp, roDir>>
    /\ IF ~dbUp
       THEN /\ ret' = Call("deduplicate", "", TRUE, <<>>, "", 0)
            /\ UNCHANGED <<rows, files>>
       ELSE \E keep \in [DupHashes -> DOMAIN rows] :
              /\ \A h \in DupHashes : keep[h] \in MostRecent(h)
              /\ LET st == RemoveAll(
                              {k \in DOMAIN rows :
                                  /\ rows[k].image_hash \in DupHashes
                                  /\ keep[rows[k].image_hash] # k},
                              [rows |-> rows, files |-> files, count |-> 0])
                 IN  /\ rows' = st.rows
                     /\ files' = st.files
                     /\ ret' = Call("deduplicate", "", TRUE, <<>>, "",
                                    st.count)

(***************************************************************************)
(* clear_all(), lines 490-511                                              *)
(***************************************************************************)
\* (variant of ClearAll: the statistics object is kept)
ClearAllKeepsStats ==
    /\ UNCHANGED restVars
    /\ pc = "idle"
    /\ UNCHANGED <<now, pc, cur, dbUp, roDir, stats>>
    /\ IF roDir /\ DOMAIN files # {}
       THEN /\ ret' = Call("clear_all", "", FALSE, <<>>, "", 0)
            /\ UNCHANGED <<rows, files>>
       ELSE IF ~dbUp
       THEN /\ files' = [p \in {} |-> 0]
            /\ ret' = Call("clear_all", "", FALSE, <<>>, "", 0)
            /\ UNCHANGED rows
       ELSE /\ files' = [p \in {} |-> 0]
            /\ rows' = [k \in {} |-> 0]
            /\ ret' = [Call("clear_all", "", TRUE, <<>>, "", 0) EXCEPT
                          !.pre = <<stats>>]

\* pre of a successful clear_all is the statistics object it replaced
ClearAll ==
    /\ UNCHANGED restVars
    /\ pc = "idle"
    /\ UNCHANGED <<now, pc, cur, dbUp, roDir>>
    /\ IF roDir /\ DOMAIN files # {}
       THEN \* shutil.rmtree raises OSError at the first file
            /\ ret' = Call("clear_all", "", FALSE, <<>>, "", 0)
            /\ UNCHANGED <<rows, files, stats>>
       ELSE IF ~dbUp \/ busy
       THEN \* the files are gone when sqlite3 fails
            /\ files' = [p \in {} |-> 0]
            /\ ret' = Call("clear_all", "", FALSE, <<>>, "", 0)
            /\ UNCHANGED <<rows, stats>>
       ELSE /\ files' = [p \in {} |-> 0]
            /\ rows' = [k \in {} |-> 0]
            /\ stats' = NewStats
            /\ ret' = [Call("clear_all", "", TRUE, <<>>, "", 0) EXCEPT
                          !.pre = <<stats>>]

(***************************************************************************)
(* get_analytics(), lines 387-415: it refreshes the statistics object from *)
(* the index and returns that object.                                      *)
(***************************************************************************)
TopCount == 10

\* ORDER BY access_count DESC: the orders sqlite may return the rows in
AccessOrders ==
    {s \in [1..Cardinality(DOMAIN rows) -> DOMAIN rows] :
        /\ \A i, j \in 1..Cardinality(DOMAIN rows) : i # j => s[i] # s[j]
        /\ \A i, j \in 1..Cardinality(DOMAIN rows) :
              i < j => rows[s[i]].access_count >= rows[s[j]].access_count}

\* SELECT key, access_count ... LIMIT 10
most_accessed(s) ==
    [i \in 1..Min2(TopCount, Len(s)) |-> <<s[i], rows[s[i]].access_count>>]

\* dict of SELECT backend, COUNT(*) ... GROUP BY backend
backend_usage ==
    [b \in {rows[k].backend : k \in DOMAIN rows} |->
        Cardinality({k \in DOMAIN rows : rows[k].backend = b})]

\* (variant of Refreshed: the totals are left as put and clear_all set them)
RefreshedKeepsTotals(s) ==
    [stats EXCEPT !.most_accessed = most_accessed(s),
                  !.backend_usage = backend_usage]

\* lines 397-409
Refreshed(s) ==
    [stats EXCEPT !.total_entries = Cardinality(DOMAIN rows),
                  !.total_size = TotalSize(rows),
                  !.most_accessed = most_accessed(s),
                  !.backend_usage = backend_usage]

\* the value of a finished get_analytics is the statistics object it returns,
\* pre the statistics as they were held when the call began
GetAnalytics ==
    /\ UNCHANGED restVars
    /\ pc = "idle"
    /\ UNCHANGED <<rows, files, now, pc, cur, dbUp, roDir>>
    /\ IF ~dbUp
       THEN \* sqlite3.Error, lines 411-412
            stats' = stats
       ELSE \E s \in AccessOrders : stats' = Refreshed(s)
    /\ ret' = [Call("get_analytics", "", TRUE, <<stats'>>, "", 0)
                  EXCEPT !.pre = <<stats>>]

(***************************************************************************)
(* _remove_entry(key) called on its own; seen is whether a row had the    *)
(* key, pre is the key, the result and the seen of the call before it when *)
(* that was a _remove_entry too.                                           *)
(***************************************************************************)
Remove(k) ==
    /\ UNCHANGED restVars
    /\ pc = "idle"
    /\ UNCHANGED <<stats, now, pc, cur, dbUp, roDir>>
    /\ rows' = RemoveEntry(rows, files, k, NoPath).rows
    /\ files' = RemoveEntry(rows, files, k, NoPath).files
    /\ ret' = [Call("_remove_entry", k, RemoveEntry(rows, files, k, NoPath).ok,
                    <<>>, "", 0)
                  EXCEPT !.seen = <<k \in DOMAIN rows>>,
                         !.pre = IF ret.op = "_remove_entry"
                                 THEN <<ret.key, ret.ok, ret.seen[1]>>
                                 ELSE <<>>]

(***************************************************************************)
(* The process ends (at any point of a put, or between calls) and a new    *)
(* AdvancedCache is constructed on the same directory.                     *)
(***************************************************************************)
Restart ==
    /\ UNCHANGED restVars
    /\ pc' = "idle"
    /\ cur' = NoPut
    /\ stats' = NewStats
    /\ ret' = NoCall
    /\ UNCHANGED <<rows, files, now, dbUp, roDir>>

(***************************************************************************)
(* AdvancedCache(cache_dir) on the directory of a cache whose last call    *)
(* has returned, lines 56-65: a new statistics object; create_dir and      *)
(* CREATE TABLE IF NOT EXISTS leave the files and the rows as they are.    *)
(* pre is the key and the document of the successful put that was the last *)
(* call before the instance (or before the instances) was made.            *)
(***************************************************************************)
\* (variant of Reopen: the table is created anew and holds no row)
ReopenDropsRows ==
    /\ UNCHANGED restVars
    /\ pc = "idle"
    /\ stats' = NewStats
    /\ rows' = [k \in {} |-> 0]
    /\ ret' = [NoCall EXCEPT
                  !.op = "__init__",
                  !.pre = IF ret.op = "put" /\ ret.ok
                          THEN <<ret.key>> \o ret.value
                          ELSE IF ret.op = "__init__" THEN ret.pre
                          ELSE <<>>]
    /\ UNCHANGED <<files, now, pc, cur, dbUp, roDir>>

Reopen ==
    /\ UNCHANGED restVars
    /\ pc = "idle"
    /\ stats' = NewStats
    /\ ret' = [NoCall EXCEPT
                  !.op = "__init__",
                  !.pre = IF ret.op = "put" /\ ret.ok
                          THEN <<ret.key>> \o ret.value
                          ELSE IF ret.op = "__init__" THEN ret.pre
                          ELSE <<>>]
    /\ UNCHANGED <<rows, files, now, pc, cur, dbUp, roDir>>

(***************************************************************************)
(* The world outside the program.                                          *)
(***************************************************************************)
Tick ==
    /\ UNCHANGED restVars
    /\ now < MaxTicks * Hour
    /\ now' = now + Hour
    /\ ret' = NoCall
    /\ UNCHANGED <<rows, files, stats, pc, cur, dbUp, roDir>>

DeleteFile(p) ==
    /\ UNCHANGED restVars
    /\ pc = "idle"
    /\ p \in DOMAIN files
    /\ files' = Without(files, p)
    /\ ret' = NoCall
    /\ UNCHANGED <<rows, stats, now, pc, cur, dbUp, roDir>>

\* the file loses its tail
TruncateFile(p) ==
    /\ UNCHANGED restVars
    /\ pc = "idle"
    /\ p \in DOMAIN files
    /\ Len(files[p].body) > 0
    /\ \E n \in StopPoints(files[p].body) :
          files' = [files EXCEPT ![p] =
                       IF n = 0 THEN EmptyFile
                       ELSE IF @.kind = "gzip"
                            THEN GzipFile(SubSeq(@.body, 1, n), FALSE)
                            ELSE TextFile(SubSeq(@.body, 1, n))]
    /\ ret' = NoCall
    /\ UNCHANGED <<rows, stats, now, pc, cur, dbUp, roDir>>

\* the file is overwritten with bytes that are neither UTF-8 nor gzip
GarbleFile(p) ==
    /\ UNCHANGED restVars
    /\ pc = "idle"
    /\ p \in DOMAIN files
    /\ files[p] # Garbage
    /\ files' = [files EXCEPT ![p] = Garbage]
    /\ ret' = NoCall
    /\ UNCHANGED <<rows, stats, now, pc, cur, dbUp, roDir>>

DbToggle ==
    /\ UNCHANGED restVars
    /\ dbUp' = ~dbUp
    /\ ret' = NoCall
    /\ UNCHANGED <<rows, files, stats, now, pc, cur, roDir>>

DirToggle ==
    /\ UNCHANGED restVars
    /\ pc = "idle"
    /\ roDir' = ~roDir
    /\ ret' = NoCall
    /\ UNCHANGED <<rows, files, stats, now, pc, cur, dbUp>>

\* another process begins or ends a read of cache.db
ReaderToggle ==
    /\ UNCHANGED <<images, procVars, maint>>
    /\ pc = "idle"
    /\ busy' = ~busy
    /\ ret' = NoCall
    /\ UNCHANGED <<rows, files, stats, now, pc, cur, dbUp, roDir>>

Paths(ks) == {CachePath(k, c) : k \in ks, c \in BOOLEAN}

(***************************************************************************)
(* Spec: one key, every operation of the store on it, with the faults of   *)
(* the file system and of the database.                                    *)
(***************************************************************************)
StoreKeys == {"k1"}

Next ==
    \/ \E k \in StoreKeys : Get(k)
    \/ \E k \in StoreKeys, A \in Artifacts, c \in BOOLEAN : PutOpen(k, A, "", c)
    \/ PutDump
    \/ PutClose
    \/ PutInsert
    \/ ClearAll
    \/ Restart
    \/ \E p \in Paths(StoreKeys) : DeleteFile(p)
    \/ \E p \in Paths(StoreKeys) : TruncateFile(p)
    \/ \E p \in Paths(StoreKeys) : GarbleFile(p)
    \/ DbToggle
    \/ DirToggle

Spec == Init /\ [][Next]_vars

(***************************************************************************)
(* SpecMaint: two keys, get and put together with the maintenance          *)
(* operations cleanup and deduplicate, while the clock advances.           *)
(***************************************************************************)
NextMaint ==
    \/ \E k \in Keys : Get(k)
    \/ \E k \in Keys, img \in ImgPaths : PutOpen(k, A1, img, TRUE)
    \/ PutDump
    \/ PutClose
    \/ PutInsert
    \/ \E K \in {0, 1} : Cleanup(60, 1, K)
    \/ Deduplicate
    \/ Restart
    \/ Tick

SpecMaint == Init /\ [][NextMaint]_vars

(***************************************************************************)
(* SpecEvict: cleanup on every store of up to three entries that were      *)
(* last accessed two days or one hour ago.                                 *)
(***************************************************************************)
InitEvict ==
    /\ now = 2 * Day + Hour
    /\ \E present \in SUBSET EvictKeys,
          art \in [EvictKeys -> Artifacts],
          la \in [EvictKeys -> {now - 2 * Day, now - Hour}],
          ac \in [EvictKeys -> {0, 1}] :
          /\ rows = [k \in present |->
                       [NewRow(k, TRUE, st_size(Stored(art[k], TRUE)),
                               get_image_hash(""), la[k])
                           EXCEPT !.access_count = ac[k]]]
          /\ files = [p \in {CachePath(k, TRUE) : k \in present} |->
                         Stored(art[p[1]], TRUE)]
    /\ stats = NewStats
    /\ pc = "idle"
    /\ cur = NoPut
    /\ ret = NoCall
    /\ dbUp = TRUE
    /\ roDir = FALSE
    /\ busy = FALSE
    /\ images = Disk
    /\ NoBatch
    /\ maint = NoMaint

NextEvict ==
    \/ \E S \in SizeLimits, D \in AgeDays, K \in KeepCounts : Cleanup(S, D, K)
    \/ DirToggle

SpecEvict == InitEvict /\ [][NextEvict]_vars

(***************************************************************************)
(* Properties of get and put, checked under Spec.                          *)
(***************************************************************************)
\* the step is a call of get on k that returned or raised
GetStep(k) ==
    /\ ret'.op = "get"
    /\ ret'.key = k
    /\ (ret' # ret \/ stats' # stats)

\* every row points at an existing file that get can decode
RowsIntact ==
    \A k \in DOMAIN rows :
        /\ rows[k].file_path \in DOMAIN files
        /\ LoadFile(files[rows[k].file_path], rows[k].compressed).tag = "ok"

\* C1: a get on k that directly follows a successful put(k, A, compress)
\* returns a document equal to A, for both compress settings and also when
\* k held another document before
RoundTrip ==
    [][\A k \in StoreKeys :
          (ret.op = "put" /\ ret.ok /\ ret.key = k /\ GetStep(k))
              => (ret'.raised = "" /\ ret'.value = ret.value)]_vars

\* C1 witness: the first hit on a row whose key also has a file of the other
\* compress setting that holds a different document
RoundTripReached ==
    /\ ret.op = "get"
    /\ ret.via = "hit"
    /\ ret.key \in DOMAIN rows
    /\ rows[ret.key].access_count = 1
    /\ LET other == CachePath(ret.key, ~rows[ret.key].compressed)
       IN  /\ other \in DOMAIN files
           /\ files[other] \in {Stored(A, ~rows[ret.key].compressed) :
                                   A \in Artifacts \ {ret.value[1]}}

\* C2: a put that returns failure leaves the rows and the files as they were
\* when it was called
FailedPutChangesNothing ==
    [][(ret'.op = "put" /\ ~ret'.ok /\ ret' # ret)
          => /\ rows' = rows
             /\ IF pc = "idle" THEN files' = files
                ELSE LET path == CachePath(cur.key, cur.compress)
                     IN  /\ (DOMAIN files') \ {path} = (DOMAIN files) \ {path}
                         /\ \A p \in (DOMAIN files') \ {path} :
                                files'[p] = files[p]
                         /\ IF cur.prev = <<>> THEN path \notin DOMAIN files'
                            ELSE /\ path \in DOMAIN files'
                                 /\ files'[path] = cur.prev[1]]_vars

\* C3: no step of a put (and no end of the process during a put) turns a
\* store whose rows all point at complete, decodable files into one with a
\* row that does not
PutKeepsRowsIntact ==
    [][((pc # "idle" \/ pc' # "idle") /\ RowsIntact) => RowsIntact']_vars

\* C4: get on a stored key whose file is gone returns a miss without
\* raising, deletes the row and counts one miss; a get on the same key
\* right after it returns from the not-found branch, counts one miss and
\* removes nothing
SelfHealing ==
    [][\A k \in StoreKeys :
          /\ (GetStep(k) /\ dbUp /\ k \in DOMAIN rows
                /\ rows[k].file_path \notin DOMAIN files)
               => /\ ret'.raised = "" /\ ret'.value = <<>>
                  /\ k \notin DOMAIN rows'
                  /\ stats'.miss_count = stats.miss_count + 1
                  /\ stats'.hit_count = stats.hit_count
          /\ (GetStep(k) /\ ret.op = "get" /\ ret.key = k
                /\ ret.via = "no_file")
               => /\ ret'.via = "no_row"
                  /\ ret'.raised = "" /\ ret'.value = <<>>
                  /\ rows' = rows /\ files' = files
                  /\ stats'.miss_count = stats.miss_count + 1
                  /\ stats'.hit_count = stats.hit_count]_vars

\* C4 witness: the second of two misses, after the row of a stored key was
\* removed because its file was gone
SelfHealingReached ==
    /\ ret.op = "get"
    /\ ret.via = "no_row"
    /\ stats.total_entries = 1
    /\ stats.miss_count = 2
    /\ DOMAIN rows = {}
    /\ DOMAIN files = {}

\* C5: get on a stored key whose file is there but cannot be decoded
\* returns a miss, deletes the row and raises nothing
CorruptFileIsMiss ==
    [][\A k \in StoreKeys :
          (GetStep(k) /\ dbUp /\ ~roDir /\ k \in DOMAIN rows
             /\ rows[k].file_path \in DOMAIN files
             /\ LoadFile(files[rows[k].file_path],
                         rows[k].compressed).tag # "ok")
            => /\ ret'.raised = "" /\ ret'.value = <<>>
               /\ k \notin DOMAIN rows']_vars

\* C6: get on a key without a row returns a miss, counts exactly one miss,
\* leaves the hit counter, the rows and the files as they were
MissCorrectness ==
    [][\A k \in StoreKeys :
          (GetStep(k) /\ k \notin DOMAIN rows)
            => /\ ret'.raised = "" /\ ret'.value = <<>>
               /\ stats'.miss_count = stats.miss_count + 1
               /\ stats'.hit_count = stats.hit_count
               /\ rows' = rows /\ files' = files]_vars

\* C6 witness: a miss on a key this process has never stored
MissReached ==
    /\ ret.op = "get"
    /\ ret.via = "no_row"
    /\ stats.total_entries = 0
    /\ stats.miss_count = 1
    /\ stats.hit_count = 0

(***************************************************************************)
(* Properties of the counters of a row, checked under SpecMaint.           *)
(***************************************************************************)
\* the step is a successful put on k
PutStep(k) ==
    /\ pc = "insert"
    /\ ret'.op = "put"
    /\ ret'.ok
    /\ ret'.key = k

\* the step is a get on k that returned the document
HitStep(k) ==
    /\ GetStep(k)
    /\ ret'.via = "hit"

\* C7 as stated: while the row of a key exists, its access_count never
\* decreases, and access_count and last_accessed change only in a get hit
\* on that key
CountersOnlyByHits ==
    [][\A k \in (DOMAIN rows) \cap (DOMAIN rows') :
          /\ rows'[k].access_count >= rows[k].access_count
          /\ (\/ rows'[k].access_count # rows[k].access_count
              \/ rows'[k].last_accessed # rows[k].last_accessed)
                => HitStep(k)]_vars

\* C7 amended: while the row of a key exists, access_count and
\* last_accessed change only in a get hit on that key, which adds one to
\* access_count, and in a successful put on that key, which sets
\* access_count to 0 and last_accessed to the time of the put; get misses,
\* failed puts, cleanup and deduplicate leave them alone
CountersByHitsAndPuts ==
    [][\A k \in (DOMAIN rows) \cap (DOMAIN rows') :
          IF HitStep(k)
          THEN /\ rows'[k].access_count = rows[k].access_count + 1
               /\ rows'[k].last_accessed = now
          ELSE IF PutStep(k)
          THEN /\ rows'[k].access_count = 0
               /\ rows'[k].last_accessed = now
          ELSE /\ rows'[k].access_count = rows[k].access_count
               /\ rows'[k].last_accessed = rows[k].last_accessed]_vars

\* C7 witness: the one put of this process has just replaced the row that
\* its one get had hit (the other key has a row that no put, hit, cleanup
\* or deduplicate of this process can have touched)
CounterResetReached ==
    /\ ret.op = "put"
    /\ ret.ok
    /\ DOMAIN rows = Keys
    /\ \A k \in Keys : rows[k].access_count = 0
    /\ \A k \in Keys \ {ret.key} : rows[k].image_hash = ""
    /\ stats.hit_count = 1
    /\ stats.miss_count = 0
    /\ stats.cleanup_count = 0
    /\ stats.total_entries = 1

(***************************************************************************)
(* Properties of cleanup, checked under SpecEvict.                         *)
(***************************************************************************)
\* the step is a call of cleanup that returned
CleanupStep ==
    /\ ret'.op = "cleanup"
    /\ (ret' # ret \/ rows' # rows \/ stats' # stats)

\* entry a ranks at least as high as entry b by (accessCount descending,
\* lastAccessedAt descending)
RanksAtLeast(a, b) ==
    \/ rows[a].access_count > rows[b].access_count
    \/ /\ rows[a].access_count = rows[b].access_count
       /\ rows[a].last_accessed >= rows[b].last_accessed

\* the entry of key k and its file are after the step what they were before
Untouched(k) ==
    /\ k \in DOMAIN rows'
    /\ rows'[k] = rows[k]
    /\ rows[k].file_path \in DOMAIN files'
    /\ files'[rows[k].file_path] = files[rows[k].file_path]

\* C8: after cleanup with keepMostAccessed = K, K entries that ranked
\* highest by (accessCount descending, lastAccessedAt descending) before the
\* call (all entries, if there were fewer) are still present with their
\* backing files, whatever their age or size
ProtectedSurvive ==
    [][CleanupStep =>
          LET K == ret'.args[3]
              n == Cardinality(DOMAIN rows)
          IN  \E P \in SUBSET (DOMAIN rows) :
                /\ Cardinality(P) = IF K < n THEN K ELSE n
                /\ \A p \in P, q \in (DOMAIN rows) \ P : RanksAtLeast(p, q)
                /\ \A p \in P : Untouched(p)]_vars

\* C8 witness: a cleanup that kept one entry has removed every other entry
\* and left the protected one, which is older than the age limit
ProtectedSurviveReached ==
    /\ ret.op = "cleanup"
    /\ ret.args[3] = 1
    /\ ret.n >= 1
    /\ dbUp /\ ~roDir
    /\ Cardinality(DOMAIN rows) = 1
    /\ \A k \in DOMAIN rows :
          /\ now - rows[k].last_accessed > ret.args[2] * Day
          /\ rows[k].file_path \in DOMAIN files

AgeEvictionScenario ==
    [][(CleanupStep /\ dbUp /\ ~roDir /\ ret'.args = <<100 * MiB, 1, 50>>)
            => \A k \in DOMAIN rows :
                  /\ now - rows[k].last_accessed = 2 * Day => k \notin DOMAIN rows'
                  /\ now - rows[k].last_accessed = Hour => k \in DOMAIN rows']_vars

(***************************************************************************)
(* SpecMisuse: cleanup called with a negative max_size_mb, max_age_days or *)
(* keep_most_accessed on the stores of SpecEvict.                          *)
(***************************************************************************)
NextMisuse ==
    \/ \E D \in AgeDays, K \in KeepCounts : Cleanup(0 - MiB, D, K)
    \/ \E S \in SizeLimits, K \in KeepCounts : Cleanup(S, 0 - 1, K)
    \/ \E S \in SizeLimits, D \in AgeDays : Cleanup(S, D, 0 - 1)

SpecMisuse == InitEvict /\ [][NextMisuse]_vars

\* C11: cleanup called with a negative size limit, age limit or keep count
\* raises an error to its caller and removes no entry
NegativeLimitFailsFast ==
    [][(CleanupStep /\ \E i \in 1..3 : ret'.args[i] < 0)
          => /\ ret'.raised # ""
             /\ rows' = rows
             /\ files' = files]_vars

(***************************************************************************)
(* SpecDedup: deduplicate on every store of up to three entries that were  *)
(* put for no image, for images with equal or different bytes, or for      *)
(* images that could not be read.                                          *)
(***************************************************************************)
DedupImgs == {"", "a.png", "copy_of_a.png", "b.png", "locked.png", "gone.png"}

InitDedup ==
    /\ now = 2 * Day + Hour
    /\ images = Disk
    /\ NoBatch
    /\ maint = NoMaint
    /\ \E present \in SUBSET EvictKeys,
          img \in [EvictKeys -> DedupImgs],
          la \in [EvictKeys -> {now - 2 * Day, now - Hour}] :
          /\ rows = [k \in present |->
                       NewRow(k, TRUE, st_size(Stored(A1, TRUE)),
                              get_image_hash(img[k]), la[k])]
          /\ files = [p \in {CachePath(k, TRUE) : k \in present} |->
                         Stored(A1, TRUE)]
    /\ stats = NewStats
    /\ pc = "idle"
    /\ cur = NoPut
    /\ ret = NoCall
    /\ dbUp = TRUE
    /\ roDir = FALSE
    /\ busy = FALSE

NextDedup ==
    \/ Deduplicate
    \/ DbToggle
    \/ DirToggle

SpecDedup == InitDedup /\ [][NextDedup]_vars

\* the step is a call of deduplicate that returned
DedupStep ==
    /\ ret'.op = "deduplicate"
    /\ (ret' # ret \/ rows' # rows)

\* the keys whose rows carry image hash h after the step
GroupAfter(h) == {k \in DOMAIN rows' : rows'[k].image_hash = h}

DegradedEntriesSurvive ==
    [][DedupStep =>
          \A k \in DOMAIN rows :
              rows[k].image_hash = get_image_hash("gone.png")
                  => k \in DOMAIN rows']_vars

(***************************************************************************)
(* generate_cache_key(img_path, backend, light, sat), lines 109-141.       *)
(* A string is the sequence of its pieces: "_" is always a piece of its    *)
(* own, a number is spelled digit by digit, the empty string is <<>>.      *)
(***************************************************************************)
Pieces(s) ==
    CASE s = "" -> <<>>
      [] s = "0.5" -> <<"0", ".", "5">>
      [] OTHER -> <<s>>

Digits == <<"0", "1", "2", "3", "4", "5", "6", "7", "8", "9">>

\* str(n) for a natural number n
RECURSIVE str(_)
str(n) ==
    IF n < 10 THEN <<Digits[n + 1]>>
    ELSE str(n \div 10) \o <<Digits[(n % 10) + 1]>>

\* "_".join(parts)
RECURSIVE Join(_)
Join(parts) ==
    IF Len(parts) = 0 THEN <<>>
    ELSE IF Len(parts) = 1 THEN parts[1]
    ELSE parts[1] \o <<"_">> \o Join(Tail(parts))

\* __cache_version__
cache_version == <<"1", ".", "1", ".", "0">>

\* int(file_mtime) of a modification time in milliseconds
IntSeconds(mtime) == mtime \div 1000

\* the pieces a string can be made of, for the digests
Alphabet ==
    <<"_", ".", "0", "1", "2", "3", "4", "5", "6", "7", "8", "9",
      "a1a1a1a1a1a1", "b2b2b2b2b2b2", "unknown", "wal", "colorz",
      "light", "dark", "True", "False",
      "a.png", "locked.png", "gone.png", "lost.png">>

Code(a) == CHOOSE i \in 1..Len(Alphabet) : Alphabet[i] = a

RECURSIVE Mix(_, _, _)
Mix(text, i, h) ==
    IF i > Len(text) THEN h
    ELSE Mix(text, i + 1, (h * 31 + Code(text[i])) % 65521)

HexDigits == <<"0", "1", "2", "3", "4", "5", "6", "7",
               "8", "9", "a", "b", "c", "d", "e", "f">>

\* hashlib.sha256(text).hexdigest() and hashlib.md5(text).hexdigest(): 64
\* and 32 hexadecimal digits that depend on every piece of the text (a
\* stand-in for the digest functions, which are not collision-free here)
hexdigest(algo, text) ==
    LET h == Mix(text, 1, IF algo = "sha256" THEN 7 ELSE 11)
    IN  [i \in 1..(IF algo = "sha256" THEN 64 ELSE 32) |->
            HexDigits[((((h \div (1 + (i % 5))) + i) % 16) + 1)]]

\* s[:n]
Slice(s, n) == SubSeq(s, 1, IF Len(s) < n THEN Len(s) ELSE n)

\* (variant of Prefix16: the digest is cut as in _get_image_hash)
Prefix12(digest) == Slice(digest, 12)

\* hexdigest()[:16], lines 134 and 141
Prefix16(digest) == Slice(digest, 16)

\* os.stat(img_path) succeeds
CanStat(img) == img \in DOMAIN images /\ images[img].access # "none"

\* key_components, lines 123-131
key_components(img, backend, light, sat) ==
    <<Pieces(image_hash_of(img)),
      Pieces(backend),
      Pieces(IF light THEN "light" ELSE "dark"),
      Pieces(IF sat # "" THEN sat ELSE "0"),
      str(images[img].size),
      str(IntSeconds(images[img].mtime)),
      cache_version>>

\* f"{img_path}_{backend}_{light}_{sat}", line 140
fallback_text(img, backend, light, sat) ==
    Pieces(img) \o <<"_">> \o Pieces(backend) \o <<"_">>
        \o Pieces(IF light THEN "True" ELSE "False") \o <<"_">> \o Pieces(sat)

\* the string generate_cache_key hashes
PreHash(img, backend, light, sat) ==
    IF CanStat(img) THEN Join(key_components(img, backend, light, sat))
    ELSE fallback_text(img, backend, light, sat)

generate_cache_key(img, backend, light, sat) ==
    IF CanStat(img)
    THEN Prefix16(hexdigest("sha256", PreHash(img, backend, light, sat)))
    ELSE Prefix16(hexdigest("md5", PreHash(img, backend, light, sat)))

\* a call of generate_cache_key; n counts how often the same call was made
\* in a row on the same state of the file
GenerateCacheKey(img, backend, light, sat) ==
    LET args == <<img, backend, light, sat>>
        seen == IF img \in DOMAIN images THEN <<images[img]>> ELSE <<>>
        again == /\ ret.op = "generate_cache_key"
                 /\ ret.args = args
                 /\ ret.seen = seen
    IN  /\ ~(again /\ ret.n >= MaxRepeats)
        /\ ret' = [Call("generate_cache_key", "", TRUE,
                        <<generate_cache_key(img, backend, light, sat)>>, "",
                        IF again THEN ret.n + 1 ELSE 1)
                   EXCEPT !.args = args,
                          !.via = IF CanStat(img) THEN "stat" ELSE "fallback",
                          !.pre = PreHash(img, backend, light, sat),
                          !.seen = seen]
        /\ UNCHANGED <<rows, files, stats, now, pc, cur, dbUp, roDir, busy, images>>
    /\ UNCHANGED <<procVars, maint>>

(***************************************************************************)
(* The image a.png changes between calls of generate_cache_key.            *)
(***************************************************************************)
MTimes == {1000, 1400, 2000}
Sizes == {10, 20}
Contents == {"A", "B"}
Accesses == {"read", "stat", "none"}

\* os.utime, or a write of the same bytes: only the time moves on
TouchImage(p) ==
    /\ \E t \in MTimes :
          /\ t > images[p].mtime
          /\ images' = [images EXCEPT ![p].mtime = t]
    /\ UNCHANGED <<rows, files, stats, now, pc, cur, ret, dbUp, roDir, busy>>
    /\ UNCHANGED <<procVars, maint>>

\* the file is written with other bytes or another length
RewriteImage(p) ==
    /\ \E c \in Contents, n \in Sizes, t \in MTimes :
          /\ <<c, n>> # <<images[p].content, images[p].size>>
          /\ t >= images[p].mtime
          /\ images' = [images EXCEPT ![p].content = c, ![p].size = n,
                                      ![p].mtime = t]
    /\ UNCHANGED <<rows, files, stats, now, pc, cur, ret, dbUp, roDir, busy>>
    /\ UNCHANGED <<procVars, maint>>

\* chmod on the file ("stat") or on its directory ("none"), and back
ChmodImage(p) ==
    /\ \E a \in Accesses \ {images[p].access} :
          images' = [images EXCEPT ![p].access = a]
    /\ UNCHANGED <<rows, files, stats, now, pc, cur, ret, dbUp, roDir, busy>>
    /\ UNCHANGED <<procVars, maint>>

(***************************************************************************)
(* SpecKey: generate_cache_key on a readable image that changes, on an     *)
(* image that cannot be opened and on two paths that name no file.         *)
(***************************************************************************)
KeyPaths == {"a.png", "locked.png", "gone.png", "lost.png"}
Backends == {"wal", "colorz"}
Sats == {"", "0", "0.5"}

NextKey ==
    \/ \E img \in KeyPaths, b \in Backends, l \in BOOLEAN, sat \in Sats :
          GenerateCacheKey(img, b, l, sat)
    \/ TouchImage("a.png")
    \/ RewriteImage("a.png")
    \/ ChmodImage("a.png")

SpecKey == Init /\ [][NextKey]_vars

\* the step is a call of generate_cache_key that returned
KeyStep ==
    /\ ret'.op = "generate_cache_key"
    /\ ret' # ret

\* the call before was made with the same arguments
SameCall ==
    /\ ret.op = "generate_cache_key"
    /\ ret'.args = ret.args

\* the file has the content, size and modification time it had at the call
\* before (or there is no file, as before)
SameContentSizeMtime ==
    IF ret.seen = <<>> \/ ret'.seen = <<>> THEN ret'.seen = ret.seen
    ELSE /\ ret'.seen[1].content = ret.seen[1].content
         /\ ret'.seen[1].size = ret.seen[1].size
         /\ ret'.seen[1].mtime = ret.seen[1].mtime

ParamsChanged == Cardinality({i \in 2..4 : ret'.args[i] # ret.args[i]})

\* C15: a call for the same image in the same state as the call before,
\* with exactly one of backend, light flag and saturation changed, hashes a
\* different string
KeyDiscrimination ==
    [][(KeyStep /\ ret.op = "generate_cache_key"
          /\ ret'.args[1] = ret.args[1]
          /\ ret'.seen = ret.seen
          /\ ParamsChanged = 1)
            => ret'.pre # ret.pre]_vars

\* the call found an image that it could not stat or could not open
Unreadable(call) == call.seen = <<>> \/ call.seen[1].access # "read"

\* C16: a call for an image that cannot be statted or opened raises
\* nothing, and what it hashes is determined by the path and the
\* parameters alone: of two such calls in a row, those with the same
\* arguments hash the same string and those with different paths hash
\* different strings
DegradedKeyFromPathOnly ==
    [][(KeyStep /\ Unreadable(ret'))
          => /\ ret'.raised = ""
             /\ (ret.op = "generate_cache_key" /\ Unreadable(ret))
                   => /\ ret'.args = ret.args => ret'.pre = ret.pre
                      /\ ret'.args[1] # ret.args[1] => ret'.pre # ret.pre]_vars

(***************************************************************************)
(* The numbers of the scorer are Python floats: IEEE 754 binary64 values,  *)
(* every operation rounded to the nearest value with 53 significant bits   *)
(* (ties to even).  A float is its sign s, its significand m, a natural    *)
(* number of exactly 53 bits, and its exponent e: the value s * m * 2^e.   *)
(* Zero has the empty significand.  A natural number is the sequence of    *)
(* its digits in base 4096, least significant first, <<>> for 0.  The      *)
(* values of the scorer stay far inside the normal range of the format.    *)
(***************************************************************************)
Base == 4096
LimbBits == 12

Limb(a, i) == IF i >= 1 /\ i <= Len(a) THEN a[i] ELSE 0

\* without the leading zero digits
RECURSIVE Trim(_)
Trim(a) ==
    IF a = <<>> THEN <<>>
    ELSE IF a[Len(a)] = 0 THEN Trim(SubSeq(a, 1, Len(a) - 1))
    ELSE a

\* the digits of the number with the digit sums raw (from position i, with
\* carry c)
RECURSIVE Carried(_, _, _)
Carried(raw, i, c) ==
    IF i > Len(raw)
    THEN IF c = 0 THEN <<>> ELSE <<c % Base>> \o Carried(raw, i, c \div Base)
    ELSE <<(raw[i] + c) % Base>> \o Carried(raw, i + 1, (raw[i] + c) \div Base)

BAdd(a, b) ==
    Trim(Carried([i \in 1..Max2(Len(a), Len(b)) |-> Limb(a, i) + Limb(b, i)],
                 1, 0))

\* a - b for a >= b (from position i, with borrow br)
RECURSIVE Borrowed(_, _, _, _)
Borrowed(a, b, i, br) ==
    IF i > Len(a) THEN <<>>
    ELSE IF a[i] - Limb(b, i) - br < 0
    THEN <<a[i] - Limb(b, i) - br + Base>> \o Borrowed(a, b, i + 1, 1)
    ELSE <<a[i] - Limb(b, i) - br>> \o Borrowed(a, b, i + 1, 0)

BSub(a, b) == Trim(Borrowed(a, b, 1, 0))

\* -1, 0, 1 as a < b, a = b, a > b (from digit i downwards)
RECURSIVE CmpFrom(_, _, _)
CmpFrom(a, b, i) ==
    IF i = 0 THEN 0
    ELSE IF a[i] < b[i] THEN -1
    ELSE IF a[i] > b[i] THEN 1
    ELSE CmpFrom(a, b, i - 1)

BCmp(a, b) ==
    IF Len(a) < Len(b) THEN -1
    ELSE IF Len(a) > Len(b) THEN 1
    ELSE CmpFrom(a, b, Len(a))

RECURSIVE SumProducts(_, _, _, _)
SumProducts(a, b, k, i) ==
    IF i > Len(a) THEN 0
    ELSE a[i] * Limb(b, k + 1 - i) + SumProducts(a, b, k, i + 1)

BMul(a, b) ==
    IF a = <<>> \/ b = <<>> THEN <<>>
    ELSE Trim(Carried([k \in 1..(Len(a) + Len(b) - 1) |->
                          SumProducts(a, b, k, 1)], 1, 0))

\* the number of binary digits of a digit x
RECURSIVE Bits(_)
Bits(x) == IF x = 0 THEN 0 ELSE 1 + Bits(x \div 2)

BitLen(a) ==
    IF a = <<>> THEN 0 ELSE LimbBits * (Len(a) - 1) + Bits(a[Len(a)])

\* a * 2^n
BShl(a, n) ==
    IF a = <<>> THEN <<>>
    ELSE [i \in 1..(n \div LimbBits) |-> 0]
             \o Trim(Carried([i \in 1..Len(a) |-> a[i] * 2^(n % LimbBits)],
                             1, 0))

\* a \div 2^n
BShr(a, n) ==
    IF n \div LimbBits >= Len(a) THEN <<>>
    ELSE Trim([i \in 1..(Len(a) - (n \div LimbBits)) |->
                  (a[i + (n \div LimbBits)] \div 2^(n % LimbBits))
                      + (Limb(a, i + (n \div LimbBits) + 1) % 2^(n % LimbBits))
                            * 2^(LimbBits - (n % LimbBits))])

\* a % 2^n
BLow(a, n) == BSub(a, BShl(BShr(a, n), n))

\* the number d * a for a digit d
Times(d, a) == IF d = 0 THEN <<>> ELSE BMul(<<d>>, a)

\* the largest digit, at most guess, whose product with d is at most r,
\* and what is left of r; prod is guess * d
RECURSIVE Fit(_, _, _, _)
Fit(guess, prod, r, d) ==
    IF BCmp(prod, r) > 0 THEN Fit(guess - 1, BSub(prod, d), r, d)
    ELSE [digit |-> guess, rest |-> BSub(r, prod)]

\* the next digit of the quotient, guessed from the leading digits of the
\* rest r and of d: at most 2 too large when the leading digit of d is at
\* least Base / 2
Guess(r, d) ==
    Min2(Base - 1,
         (Limb(r, Len(d) + 1) * Base + Limb(r, Len(d))) \div d[Len(d)])

\* the digit of the quotient for the rest r, and what is left of r
Digit(r, d) == Fit(Guess(r, d), Times(Guess(r, d), d), r, d)

\* quotient q and rest r of the division of a by d, digit by digit (from
\* digit i of a downwards, with the quotient q and the rest r so far)
RECURSIVE DivFrom(_, _, _, _, _)
DivFitted(a, d, i, q, fit) ==
    DivFrom(a, d, i - 1, <<fit.digit>> \o q, fit.rest)

\* the digit is 0 where the rest is smaller than d
DivDigit(a, d, i, q, r) ==
    IF BCmp(r, d) < 0 THEN DivFrom(a, d, i - 1, <<0>> \o q, r)
    ELSE DivFitted(a, d, i, q, Digit(r, d))

DivFrom(a, d, i, q, r) ==
    IF i = 0 THEN [q |-> Trim(q), r |-> r]
    ELSE DivDigit(a, d, i, q, Trim(<<a[i]>> \o r))

\* the leading Len(d) - 1 digits of a are smaller than d: the quotient
\* starts at the digit below them
DivScaled(a, d) ==
    IF Len(a) < Len(d) THEN [q |-> <<>>, r |-> a]
    ELSE DivFrom(a, d, Len(a) - Len(d) + 1, <<>>,
                 SubSeq(a, Len(a) - Len(d) + 2, Len(a)))

\* quotient and rest of a by d, both scaled so that d fills its digits
BDivMod(a, d) ==
    DivScaled(BShl(a, LimbBits - Bits(d[Len(d)])),
              BShl(d, LimbBits - Bits(d[Len(d)])))

Zero == [s |-> 1, m |-> <<>>, e |-> 0]

\* a significand q of 54 binary digits is halved
Carry53(s, q, e) ==
    IF BitLen(q) > 53 THEN [s |-> s, m |-> BShr(q, 1), e |-> e + 1]
    ELSE [s |-> s, m |-> q, e |-> e]

\* q or q + 1, to the nearest, ties to even: c compares what was cut off
\* with one half
RoundUp(q, c, inexact) ==
    IF c > 0 \/ (c = 0 /\ (inexact \/ q[1] % 2 = 1)) THEN BAdd(q, <<1>>)
    ELSE q

\* k is the number of binary digits of n beyond 53
RoundedAt(s, n, e, inexact, k) ==
    IF k <= 0 THEN [s |-> s, m |-> BShl(n, -k), e |-> e + k]
    ELSE Carry53(s,
                 RoundUp(BShr(n, k),
                         BCmp(BLow(n, k), BShl(<<1>>, k - 1)),
                         inexact),
                 e + k)

\* the float nearest to s * n * 2^e, where inexact says that the exact
\* value lies strictly between n * 2^e and (n + 1) * 2^e
Rounded(s, n, e, inexact) ==
    IF n = <<>> THEN Zero ELSE RoundedAt(s, n, e, inexact, BitLen(n) - 53)

\* x * y
FMul(x, y) ==
    IF x.m = <<>> \/ y.m = <<>> THEN Zero
    ELSE Rounded(x.s * y.s, BMul(x.m, y.m), x.e + y.e, FALSE)

\* sa * a * 2^e + sb * b * 2^e
Aligned(sa, a, sb, b, e) ==
    Rounded(IF sa = sb \/ BCmp(a, b) >= 0 THEN sa ELSE sb,
            IF sa = sb THEN BAdd(a, b)
            ELSE IF BCmp(a, b) >= 0 THEN BSub(a, b)
            ELSE BSub(b, a),
            e, FALSE)

\* x + y
FAdd(x, y) ==
    IF x.m = <<>> THEN y
    ELSE IF y.m = <<>> THEN x
    ELSE Aligned(x.s, BShl(x.m, x.e - Min2(x.e, y.e)),
                 y.s, BShl(y.m, y.e - Min2(x.e, y.e)), Min2(x.e, y.e))

\* x - y
FSub(x, y) == IF y.m = <<>> THEN x ELSE FAdd(x, [y EXCEPT !.s = -y.s])

Quotient(s, d, e) == Rounded(s, d.q, e, d.r # <<>>)

\* x / y for y # 0
FDiv(x, y) ==
    IF x.m = <<>> THEN Zero
    ELSE Quotient(x.s * y.s, BDivMod(BShl(x.m, 56), y.m), x.e - y.e - 56)

\* x < y
FLess(x, y) ==
    IF x.m = <<>> THEN y.m # <<>> /\ y.s = 1
    ELSE IF y.m = <<>> THEN x.s = -1
    ELSE IF x.s # y.s THEN x.s = -1
    ELSE IF x.e # y.e THEN (x.e < y.e) = (x.s = 1)
    ELSE IF x.s = 1 THEN BCmp(x.m, y.m) < 0
    ELSE BCmp(x.m, y.m) > 0

FMax(x, y) == IF FLess(x, y) THEN y ELSE x
FMin(x, y) == IF FLess(y, x) THEN y ELSE x

\* float(n) for a natural number n < 4096
FloatOf(n) == Rounded(1, IF n = 0 THEN <<>> ELSE <<n>>, 0, FALSE)

(***************************************************************************)
(* The scorer of find_best_images: _calculate_image_score and its helpers  *)
(* (src/pywal/parallel.py, lines 171-259).  A colour is a string, that is, *)
(* the sequence of its characters; the palette of a scheme is the sequence *)
(* of the values of its "colors" dictionary.                               *)
(***************************************************************************)
\* the float a literal of the source denotes
Float(lit) ==
    CASE lit = "0.0" -> [s |-> 1, m |-> <<>>, e |-> 0]
      [] lit = "0.3" -> [s |-> 1, m |-> <<819, 819, 819, 819, 19>>, e |-> -54]
      [] lit = "0.4" -> [s |-> 1, m |-> <<2458, 2457, 2457, 2457, 25>>, e |-> -54]
      [] lit = "0.05" -> [s |-> 1, m |-> <<2458, 2457, 2457, 2457, 25>>, e |-> -57]
      [] lit = "21.0" -> [s |-> 1, m |-> <<0, 0, 0, 0, 21>>, e |-> -48]
      [] lit = "255.0" -> [s |-> 1, m |-> <<0, 0, 0, 3584, 31>>, e |-> -45]
      [] lit = "0.03928" -> [s |-> 1, m |-> <<1315, 3169, 534, 456, 20>>, e |-> -57]
      [] lit = "12.92" -> [s |-> 1, m |-> <<983, 1802, 2621, 3440, 25>>, e |-> -49]
      [] lit = "0.2126" -> [s |-> 1, m |-> <<1724, 2313, 2575, 871, 27>>, e |-> -55]
      [] lit = "0.7152" -> [s |-> 1, m |-> <<3237, 1074, 2844, 3630, 22>>, e |-> -53]
      [] lit = "0.0722" -> [s |-> 1, m |-> <<3421, 3158, 766, 1979, 18>>, e |-> -56]
      [] lit = "0.5" -> [s |-> 1, m |-> <<0, 0, 0, 0, 16>>, e |-> -53]
      [] lit = "1.0" -> [s |-> 1, m |-> <<0, 0, 0, 0, 16>>, e |-> -52]
      [] lit = "16.0" -> [s |-> 1, m |-> <<0, 0, 0, 0, 16>>, e |-> -48]

\* ((x + 0.055) / 1.055) ** 2.4 for x = v / 255.0, lines 222-224: the value
\* that the power function of the C library returns, for the channel values
\* v that occur in the colours below
Pow24(v) ==
    CASE v = 38 -> [s |-> 1, m |-> <<3083, 2937, 2105, 3471, 19>>, e |-> -58]
      [] v = 51 -> [s |-> 1, m |-> <<3878, 2159, 2979, 3889, 16>>, e |-> -57]
      [] v = 59 -> [s |-> 1, m |-> <<1262, 2853, 16, 1607, 22>>, e |-> -57]
      [] v = 80 -> [s |-> 1, m |-> <<3067, 3037, 2368, 2196, 20>>, e |-> -56]
      [] v = 115 -> [s |-> 1, m |-> <<2620, 1715, 2096, 3868, 21>>, e |-> -55]
      [] v = 128 -> [s |-> 1, m |-> <<813, 998, 286, 2581, 27>>, e |-> -55]
      [] v = 136 -> [s |-> 1, m |-> <<589, 905, 1643, 2104, 31>>, e |-> -55]
      [] v = 150 -> [s |-> 1, m |-> <<177, 3712, 2434, 2126, 19>>, e |-> -54]
      [] v = 164 -> [s |-> 1, m |-> <<2757, 695, 2992, 3109, 23>>, e |-> -54]
      [] v = 171 -> [s |-> 1, m |-> <<2813, 3823, 2367, 259, 26>>, e |-> -54]
      [] v = 178 -> [s |-> 1, m |-> <<1758, 2649, 3366, 2018, 28>>, e |-> -54]
      [] v = 192 -> [s |-> 1, m |-> <<1224, 1092, 138, 3554, 16>>, e |-> -53]
      [] v = 255 -> [s |-> 1, m |-> <<0, 0, 0, 0, 16>>, e |-> -52]

UpperHex == <<"A", "B", "C", "D", "E", "F">>

\* the value of a hexadecimal digit, -1 for any other character
HexValue(ch) ==
    IF \E i \in 1..16 : HexDigits[i] = ch
    THEN (CHOOSE i \in 1..16 : HexDigits[i] = ch) - 1
    ELSE IF \E i \in 1..6 : UpperHex[i] = ch
    THEN (CHOOSE i \in 1..6 : UpperHex[i] = ch) + 9
    ELSE -1

\* "#{:02x}{:02x}{:02x}".format(r, g, b), util.rgb_to_hex
rgb_to_hex(r, g, b) ==
    <<"#", HexDigits[(r \div 16) + 1], HexDigits[(r % 16) + 1],
           HexDigits[(g \div 16) + 1], HexDigits[(g % 16) + 1],
           HexDigits[(b \div 16) + 1], HexDigits[(b % 16) + 1]>>

\* color.lstrip("#")
RECURSIVE lstrip(_)
lstrip(color) ==
    IF color # <<>> /\ color[1] = "#" THEN lstrip(Tail(color)) ELSE color

\* int(text, 16) for two characters that are digits or letters: the
\* number, or -1 where int raises ValueError
Int16(text) ==
    IF HexValue(text[1]) < 0 \/ HexValue(text[2]) < 0 THEN -1
    ELSE 16 * HexValue(text[1]) + HexValue(text[2])

\* int(hex_color[i : i + 2], 16) for i in (0, 2, 4)
Channels(hex_color) ==
    <<Int16(SubSeq(hex_color, 1, 2)), Int16(SubSeq(hex_color, 3, 4)),
      Int16(SubSeq(hex_color, 5, 6))>>

\* a float that was returned, or an exception that was raised
Returned(v) == [raised |-> FALSE, v |-> v]
ValueError == [raised |-> TRUE, v |-> Zero]

\* lines 222-224, for x = v / 255.0: the linear or the power branch
LinearOf(v, x) ==
    IF ~FLess(Float("0.03928"), x) THEN FDiv(x, Float("12.92"))
    ELSE Pow24(v)

\* lines 220-224
Linear(v) == LinearOf(v, FDiv(FloatOf(v), Float("255.0")))

\* line 225
Weighted(r, g, b) ==
    FAdd(FAdd(FMul(Float("0.2126"), r), FMul(Float("0.7152"), g)),
         FMul(Float("0.0722"), b))

\* lines 219-225, for the three numbers of line 219
LuminanceOf(ch) ==
    IF \E i \in 1..3 : ch[i] < 0 THEN ValueError
    ELSE Returned(Weighted(Linear(ch[1]), Linear(ch[2]), Linear(ch[3])))

\* lines 216-225, for hex_color
LuminanceOfHex(hex_color) ==
    IF Len(hex_color) # 6 THEN Returned(Float("0.5"))
    ELSE LuminanceOf(Channels(hex_color))

\* get_luminance, lines 214-225
get_luminance(color) == LuminanceOfHex(lstrip(color))

\* line 234: min(contrast / 21.0, 1.0)
Normalized(contrast) == FMin(FDiv(contrast, Float("21.0")), Float("1.0"))

\* (variant of ContrastOf: the darker luminance is divided by the lighter)
ContrastOfDarkerOverLighter(l1, l2) ==
    IF l1.raised \/ l2.raised THEN Float("0.5")
    ELSE Normalized(FDiv(FAdd(FMin(l1.v, l2.v), Float("0.05")),
                         FAdd(FMax(l1.v, l2.v), Float("0.05"))))

\* lines 227-237, for the two results of get_luminance
ContrastOf(l1, l2) ==
    IF l1.raised \/ l2.raised THEN Float("0.5")
    ELSE Normalized(FDiv(FAdd(FMax(l1.v, l2.v), Float("0.05")),
                         FAdd(FMin(l1.v, l2.v), Float("0.05"))))

\* _calculate_contrast, lines 210-237
calculate_contrast(color1, color2) ==
    ContrastOf(get_luminance(color1), get_luminance(color2))

\* line 249
Spread(max_val, min_val) ==
    IF FLess(Float("0.0"), max_val)
    THEN FDiv(FSub(max_val, min_val), max_val)
    ELSE Float("0.0")

\* lines 247-249
SaturationOfRgb(r, g, b) ==
    Spread(FMax(FMax(r, g), b), FMin(FMin(r, g), b))

\* lines 245-251, for the three numbers of line 245
SaturationOf(ch) ==
    IF \E i \in 1..3 : ch[i] < 0 THEN Float("0.0")
    ELSE SaturationOfRgb(FDiv(FloatOf(ch[1]), Float("255.0")),
                         FDiv(FloatOf(ch[2]), Float("255.0")),
                         FDiv(FloatOf(ch[3]), Float("255.0")))

\* lines 242-251, for hex_color
SaturationOfHex(hex_color) ==
    IF Len(hex_color) # 6 THEN Float("0.0")
    ELSE SaturationOf(Channels(hex_color))

\* _calculate_saturation, lines 239-251
calculate_saturation(color) == SaturationOfHex(lstrip(color))

\* sum(values), added from the left
RECURSIVE FSum(_, _)
FSum(values, n) ==
    IF n = 0 THEN Float("0.0") ELSE FAdd(FSum(values, n - 1), values[n])

\* x ** 2
Square(x) == FMul(x, x)

\* (x - mean) ** 2 for every x in values
Squares(values, mean) ==
    [i \in 1..Len(values) |-> Square(FSub(values[i], mean))]

\* sum(values) / len(values)
MeanOf(values) == FDiv(FSum(values, Len(values)), FloatOf(Len(values)))

\* _calculate_variance, lines 253-259
calculate_variance(values) ==
    IF Len(values) < 2 THEN Float("0.0")
    ELSE MeanOf(Squares(values, MeanOf(values)))

\* color_scheme.get("colors", {}).values() and the two colours that
\* special.get reads, with their defaults
color_values(color_scheme) ==
    IF "colors" \in DOMAIN color_scheme THEN color_scheme.colors ELSE <<>>

special_of(color_scheme, name, default) ==
    IF "special" \in DOMAIN color_scheme
       /\ name \in DOMAIN color_scheme.special
    THEN color_scheme.special[name]
    ELSE default

\* (variant of diversity: the number of different colours is not divided)
diversityUndivided(values) ==
    IF Len(values) >= 16
    THEN FMul(FloatOf(Cardinality({values[i] : i \in 1..Len(values)})),
              Float("0.3"))
    ELSE Float("0.0")

\* lines 181-184: the share of different colours, for 16 colours or more
diversity(values) ==
    IF Len(values) >= 16
    THEN FMul(FDiv(FloatOf(Cardinality({values[i] : i \in 1..Len(values)})),
                   Float("16.0")),
              Float("0.3"))
    ELSE Float("0.0")

\* lines 189-191
ContrastPartOf(bg, fg) ==
    IF bg # <<>> /\ fg # <<>>
    THEN FMul(calculate_contrast(bg, fg), Float("0.4"))
    ELSE Float("0.0")

\* lines 187-191: the contrast of background and foreground
contrast_part(color_scheme) ==
    ContrastPartOf(special_of(color_scheme, "background", rgb_to_hex(0, 0, 0)),
                   special_of(color_scheme, "foreground",
                              rgb_to_hex(255, 255, 255)))

\* line 196: color and color.startswith("#")
IsPrimary(color) == color # <<>> /\ color[1] = "#"

\* lines 197-198: the saturation of every colour of the list
Saturations(colours) ==
    [i \in 1..Len(colours) |-> calculate_saturation(colours[i])]

\* lines 200-202
VariancePart(saturations) ==
    IF saturations # <<>>
    THEN FMul(FMin(calculate_variance(saturations), Float("1.0")),
              Float("0.3"))
    ELSE Float("0.0")

\* lines 194-202: the variance of the saturations of the first 8 colours
\* that are not empty and start with "#"
saturation_part(values) ==
    VariancePart(Saturations(SelectSeq(SubSeq(values, 1, Min2(8, Len(values))),
                                       IsPrimary)))

\* _calculate_image_score, lines 171-208, for a scheme whose colours are
\* strings
calculate_image_score(color_scheme) ==
    FAdd(FAdd(diversity(color_values(color_scheme)),
              contrast_part(color_scheme)),
         saturation_part(color_values(color_scheme)))

(***************************************************************************)
(* The schemes the backends produce.  colors.get is known by its contract: *)
(* a dictionary with the 16 colours of the palette under "colors" and the  *)
(* background and foreground under "special".  Two images with the same    *)
(* content get the same colours.                                           *)
(***************************************************************************)
\* 16 greys, from black to white
Greys == [i \in 1..16 |-> rgb_to_hex(17 * (i - 1), 17 * (i - 1), 17 * (i - 1))]

\* the palette of test_calculate_image_score
Warm == [i \in 1..16 |-> rgb_to_hex(15 * (i - 1), 10 * (i - 1), 5 * (i - 1))]

Black == rgb_to_hex(0, 0, 0)
White == rgb_to_hex(255, 255, 255)
Grey == rgb_to_hex(128, 128, 128)

\* the colours of an image with the given content
PaletteOf(content) == IF content = "A" THEN Greys ELSE Warm

SpecialOf(content) ==
    IF content = "A" THEN [background |-> Black, foreground |-> White]
    ELSE [background |-> Grey, foreground |-> White]

(***************************************************************************)
(* process_image_batch and _process_single_image (src/pywal/parallel.py,   *)
(* lines 40-121).  One worker thread runs _process_single_image for each   *)
(* image; the thread that called process_image_batch collects the futures  *)
(* as they complete.  A counter update `stats[c] += 1` is a read followed  *)
(* by a write, and no lock is held between the two.  The module colors is  *)
(* known by its contract: colors.get returns the scheme of a backend and   *)
(* stores it in its cache file, or raises; colors.file returns the content *)
(* of a cache file, or raises when the file cannot be parsed.              *)
(***************************************************************************)
max_workers == 2

BatchImgs == {"a.png", "b.png"}
BackendOrder == <<"wal", "colorz">>
Pairs == {<<img, b>> : img \in BatchImgs, b \in BackendNames}

\* the scheme backend b produces for image img
Scheme(img, b) ==
    IF img \in DOMAIN Disk
    THEN [wallpaper |-> img, backend |-> b,
          special |-> SpecialOf(Disk[img].content),
          colors |-> PaletteOf(Disk[img].content)]
    ELSE [wallpaper |-> img, backend |-> b]

GoodFile(img, b) == [ok |-> TRUE, data |-> Scheme(img, b)]
CorruptFile == [ok |-> FALSE, data |-> Scheme("", "")]

QueuedTask ==
    [pc |-> "queued", i |-> 1, reg |-> 0, ctr |-> "", then |-> "",
     result |-> <<>>]

\* (variant of BackendAt: the list is walked from its end)
BackendAtReversed(i) == batch.backends[Len(batch.backends) + 1 - i]

\* the backend of the i-th turn of `for backend in backends`
BackendAt(i) == batch.backends[i]

\* the next `stats[ctr] += 1` of a task, and where it goes on afterwards
Update(t, ctr, then) == [t EXCEPT !.pc = "load", !.ctr = ctr, !.then = then]

\* (variant of BeginBackend: the last backend of the list is never tried)
BeginBackendButLast(t, i) ==
    IF i > 1 /\ i >= Len(batch.backends)
    THEN [t EXCEPT !.pc = "finished", !.i = i, !.result = <<>>]
    ELSE Update([t EXCEPT !.i = i], "backend_attempts", "check")

\* the i-th turn of the loop: line 99, or `return None` after the last
BeginBackend(t, i) ==
    IF i > Len(batch.backends)
    THEN [t EXCEPT !.pc = "finished", !.i = i, !.result = <<>>]
    ELSE Update([t EXCEPT !.i = i], "backend_attempts", "check")

PerBackend(ctr) == ctr \in {"backend_attempts", "backend_successes"}

Counter(st, ctr, b) == IF PerBackend(ctr) THEN st[ctr][b] ELSE st[ctr]

SetCounter(st, ctr, b, v) ==
    IF PerBackend(ctr) THEN [st EXCEPT ![ctr][b] = v]
    ELSE [st EXCEPT ![ctr] = v]

Active == {img \in DOMAIN tasks :
              tasks[img].pc \notin {"queued", "finished", "collected"}}

\* a free worker of the pool takes the next submitted task
StartTask(img) ==
    /\ batch.phase = "running"
    /\ tasks[img].pc = "queued"
    /\ Cardinality(Active) < max_workers
    /\ tasks' = [tasks EXCEPT ![img] = BeginBackend(@, 1)]
    /\ UNCHANGED <<pstats, ccache, works, batch, events>>
    /\ UNCHANGED <<rows, files, stats, now, pc, cur, ret, dbUp, roDir, busy, images,
                   maint>>

\* the read of `stats[ctr] += 1`
Load(img) ==
    /\ tasks[img].pc = "load"
    /\ tasks' = [tasks EXCEPT ![img].pc = "store",
                              ![img].reg = Counter(pstats, tasks[img].ctr,
                                                   BackendAt(tasks[img].i))]
    /\ UNCHANGED <<pstats, ccache, works, batch, events>>
    /\ UNCHANGED <<rows, files, stats, now, pc, cur, ret, dbUp, roDir, busy, images,
                   maint>>

\* the write of `stats[ctr] += 1`
Store(img) ==
    /\ tasks[img].pc = "store"
    /\ LET t == tasks[img]
           b == BackendAt(t.i)
       IN  /\ pstats' = SetCounter(pstats, t.ctr, b, t.reg + 1)
           /\ events' = SetCounter(events, t.ctr, b,
                                   Counter(events, t.ctr, b) + 1)
           /\ tasks' = [tasks EXCEPT ![img].pc = t.then]
    /\ UNCHANGED <<ccache, works, batch>>
    /\ UNCHANGED <<rows, files, stats, now, pc, cur, ret, dbUp, roDir, busy, images,
                   maint>>

\* lines 102-111: colors.cache_fname and os.path.isfile
Check(img) ==
    /\ tasks[img].pc = "check"
    /\ tasks' = [tasks EXCEPT ![img] =
                     IF <<img, BackendAt(@.i)>> \in DOMAIN ccache
                     THEN Update(@, "cache_hits", "read")
                     ELSE Update(@, "cache_misses", "compute")]
    /\ UNCHANGED <<pstats, ccache, works, batch, events>>
    /\ UNCHANGED <<rows, files, stats, now, pc, cur, ret, dbUp, roDir, busy, images,
                   maint>>

\* line 109: return colors.file(cache_file), or its exception (line 117)
ReadCache(img) ==
    /\ tasks[img].pc = "read"
    /\ LET t == tasks[img]
           f == ccache[<<img, BackendAt(t.i)>>]
       IN  tasks' = [tasks EXCEPT ![img] =
                        IF f.ok
                        THEN [t EXCEPT !.pc = "finished", !.result = <<f.data>>]
                        ELSE BeginBackend(t, t.i + 1)]
    /\ UNCHANGED <<pstats, ccache, works, batch, events>>
    /\ UNCHANGED <<rows, files, stats, now, pc, cur, ret, dbUp, roDir, busy, images,
                   maint>>

\* line 113: result = colors.get(...), or its exception (line 117)
Compute(img) ==
    /\ tasks[img].pc = "compute"
    /\ LET t == tasks[img]
           b == BackendAt(t.i)
       IN  IF <<img, b>> \in works
           THEN /\ ccache' = With(ccache, <<img, b>>, GoodFile(img, b))
                /\ tasks' = [tasks EXCEPT ![img] =
                                 Update([t EXCEPT !.result = <<Scheme(img, b)>>],
                                        "backend_successes", "finished")]
           ELSE /\ tasks' = [tasks EXCEPT ![img] = BeginBackend(t, t.i + 1)]
                /\ UNCHANGED ccache
    /\ UNCHANGED <<pstats, works, batch, events>>
    /\ UNCHANGED <<rows, files, stats, now, pc, cur, ret, dbUp, roDir, busy, images,
                   maint>>

\* (variant of Collected: a task without result empties the map)
CollectedOrReset(results, img, result) ==
    IF result # <<>> THEN With(results, img, result[1])
    ELSE [x \in {} |-> 0]

\* lines 81-84: results[img_path] = result, for a result that is not None
Collected(results, img, result) ==
    IF result # <<>> THEN With(results, img, result[1]) ELSE results

\* lines 78-89: one turn of the loop over as_completed
Collect(img) ==
    /\ batch.phase = "running"
    /\ tasks[img].pc = "finished"
    /\ batch' = [batch EXCEPT !.results =
                     Collected(@, img, tasks[img].result)]
    /\ pstats' = IF tasks[img].result # <<>>
                 THEN [pstats EXCEPT !.images_processed = @ + 1]
                 ELSE pstats
    /\ tasks' = [tasks EXCEPT ![img].pc = "collected"]
    /\ UNCHANGED <<ccache, works, events>>
    /\ UNCHANGED <<rows, files, stats, now, pc, cur, ret, dbUp, roDir, busy, images,
                   maint>>

\* lines 90-91: every future was collected, return results
ReturnBatch ==
    /\ batch.phase = "running"
    /\ \A img \in DOMAIN tasks : tasks[img].pc = "collected"
    /\ batch' = [batch EXCEPT !.phase = "returned"]
    /\ UNCHANGED <<pstats, ccache, works, tasks, events>>
    /\ UNCHANGED <<rows, files, stats, now, pc, cur, ret, dbUp, roDir, busy, images,
                   maint>>

(***************************************************************************)
(* SpecBatch: one call of process_image_batch on two images and two        *)
(* backends, for every set of working backends and every content of the    *)
(* scheme cache (a file of the first backend may be unparsable).           *)
(***************************************************************************)
CacheStates ==
    {f \in UNION {[P -> {"good", "corrupt"}] : P \in SUBSET Pairs} :
        \A q \in DOMAIN f : f[q] = "corrupt" => q[2] = BackendOrder[1]}

InitBatch ==
    /\ rows = [k \in {} |-> 0]
    /\ files = [p \in {} |-> 0]
    /\ stats = NewStats
    /\ now = 0
    /\ pc = "idle"
    /\ cur = NoPut
    /\ ret = NoCall
    /\ dbUp = TRUE
    /\ roDir = FALSE
    /\ busy = FALSE
    /\ images = Disk
    /\ maint = NoMaint
    /\ pstats = NewPStats
    /\ events = NoEvents
    /\ works \in SUBSET Pairs
    /\ \E f \in CacheStates :
          ccache = [q \in DOMAIN f |->
                       IF f[q] = "good" THEN GoodFile(q[1], q[2])
                       ELSE CorruptFile]
    /\ tasks = [img \in BatchImgs |-> QueuedTask]
    /\ batch = [phase |-> "running", backends |-> BackendOrder,
                results |-> [x \in {} |-> 0], before |-> ccache]

NextBatch ==
    \/ \E img \in BatchImgs : StartTask(img)
    \/ \E img \in BatchImgs : Load(img)
    \/ \E img \in BatchImgs : Store(img)
    \/ \E img \in BatchImgs : Check(img)
    \/ \E img \in BatchImgs : ReadCache(img)
    \/ \E img \in BatchImgs : Compute(img)
    \/ \E img \in BatchImgs : Collect(img)
    \/ ReturnBatch

SpecBatch == InitBatch /\ [][NextBatch]_vars

(***************************************************************************)
(* Properties of process_image_batch, checked under SpecBatch.             *)
(***************************************************************************)
\* what the backends from the i-th on, tried in the given order on the
\* cache as it was when the batch was called, yield for image img: the
\* scheme of the first one that has a parsable cache file or, having no
\* cache file, produces a scheme; <<>> if there is none
RECURSIVE FirstResult(_, _)
FirstResult(img, i) ==
    IF i > Len(batch.backends) THEN <<>>
    ELSE LET q == <<img, batch.backends[i]>>
         IN  IF q \in DOMAIN batch.before
             THEN IF batch.before[q].ok THEN <<batch.before[q].data>>
                  ELSE FirstResult(img, i + 1)
             ELSE IF q \in works THEN <<Scheme(img, batch.backends[i])>>
                  ELSE FirstResult(img, i + 1)

\* C17: the map a batch returns has at most as many entries as images were
\* submitted, its keys are submitted images, and the scheme under an image
\* is the one of the first backend in the given order that had a cache hit
\* or computed a scheme for that image
BatchCompleteness ==
    batch.phase = "returned" =>
        /\ DOMAIN batch.results \subseteq DOMAIN tasks
        /\ Cardinality(DOMAIN batch.results) <= Cardinality(BatchImgs)
        /\ \A img \in DOMAIN batch.results :
              /\ FirstResult(img, 1) # <<>>
              /\ batch.results[img] = FirstResult(img, 1)[1]

\* C17 witness: a batch has returned the scheme of the first backend for
\* one image and, the first backend having failed, the scheme of the
\* second backend for the other
FallbackReached ==
    /\ batch.phase = "returned"
    /\ DOMAIN batch.results = BatchImgs
    /\ batch.results["a.png"].backend = BackendOrder[1]
    /\ batch.results["b.png"].backend = BackendOrder[2]
    /\ pstats.backend_attempts[BackendOrder[2]] = 1

CountersExact ==
    batch.phase = "returned" =>
        /\ pstats.cache_hits = events.cache_hits
        /\ pstats.cache_misses = events.cache_misses
        /\ \A b \in BackendNames :
              /\ pstats.backend_attempts[b] = events.backend_attempts[b]
              /\ pstats.backend_successes[b] = events.backend_successes[b]

(***************************************************************************)
(* cleanup and deduplicate one statement at a time, as they run while      *)
(* another thread of the process is inside put: the SELECTs (lines 301-324 *)
(* and 424-444) read the committed rows, every _remove_entry call commits  *)
(* on its own connection, and neither method takes a lock.  Run without    *)
(* interleaving, the steps amount to Cleanup and Deduplicate.              *)
(***************************************************************************)
\* a fetched row: key, file_path, size, last_accessed
Fetched(k) ==
    [key |-> k, file_path |-> rows[k].file_path, size |-> rows[k].size,
     last_accessed |-> rows[k].last_accessed]

\* lines 294-324 of cleanup
CleanupScan(S, max_age_days, keep_most_accessed) ==
    /\ maint.pc = "idle"
    /\ UNCHANGED <<rows, files, stats, now, pc, cur, dbUp, roDir, busy, images>>
    /\ UNCHANGED procVars
    /\ IF ~dbUp \/ (TotalSize(rows) <= S /\ Cardinality(DOMAIN rows) < HardCeiling)
       THEN /\ ret' = [Call("cleanup", "", TRUE, <<>>, "", 0) EXCEPT
                          !.args = <<S, max_age_days, keep_most_accessed>>]
            /\ UNCHANGED maint
       ELSE \E top \in SortedSeqs(DOMAIN rows, "most_accessed_first") :
            \E cands \in SortedSeqs((DOMAIN rows) \ Limit(top, keep_most_accessed),
                                    "oldest_first") :
                /\ maint' = [NoMaint EXCEPT
                                !.op = "cleanup", !.pc = "walk",
                                !.todo = [i \in 1..Len(cands) |-> Fetched(cands[i])],
                                !.total = TotalSize(rows), !.S = S,
                                !.age = max_age_days * 24 * 3600, !.t = now,
                                !.args = <<S, max_age_days, keep_most_accessed>>]
                /\ UNCHANGED ret

\* lines 424-432 of deduplicate
DedupScan ==
    /\ maint.pc = "idle"
    /\ UNCHANGED <<rows, files, stats, now, pc, cur, dbUp, roDir, busy, images>>
    /\ UNCHANGED procVars
    /\ IF ~dbUp
       THEN /\ ret' = Call("deduplicate", "", TRUE, <<>>, "", 0)
            /\ UNCHANGED maint
       ELSE /\ maint' = [NoMaint EXCEPT !.op = "deduplicate", !.pc = "walk",
                                        !.hashes = DupHashes]
            /\ UNCHANGED ret

\* lines 434-445 of deduplicate: the rows of the next hash, most recently
\* accessed first, without the first
DedupSelect ==
    /\ maint.pc = "walk"
    /\ maint.op = "deduplicate"
    /\ maint.todo = <<>>
    /\ \E h \in maint.hashes :
          IF Group(h) = {}
          THEN maint' = [maint EXCEPT !.hashes = @ \ {h}]
          ELSE \E keep \in MostRecent(h) :
               \E rest \in SortedSeqs(Group(h) \ {keep}, "oldest_first") :
                   maint' = [maint EXCEPT
                                !.hashes = @ \ {h},
                                !.todo = [i \in 1..Len(rest) |->
                                             Fetched(rest[Len(rest) + 1 - i])]]
    /\ UNCHANGED <<rows, files, stats, now, pc, cur, ret, dbUp, roDir, busy, images>>
    /\ UNCHANGED procVars

\* lines 327-350 of cleanup and 446-448 of deduplicate: one turn of the
\* loop over the fetched rows
MaintRemove ==
    /\ maint.pc = "walk"
    /\ maint.todo # <<>>
    /\ LET c == Head(maint.todo)
           should_remove ==
               \/ maint.op = "deduplicate"
               \/ maint.t - c.last_accessed > maint.age
               \/ maint.total - maint.freed > maint.S
           r == RemoveEntry(rows, files, c.key, c.file_path)
       IN  IF should_remove /\ r.ok
           THEN /\ rows' = r.rows
                /\ files' = r.files
                /\ maint' = [maint EXCEPT !.todo = Tail(@),
                                          !.freed = @ + c.size,
                                          !.count = @ + 1]
           ELSE /\ maint' = [maint EXCEPT !.todo = Tail(@)]
                /\ UNCHANGED <<rows, files>>
    /\ UNCHANGED <<stats, now, pc, cur, ret, dbUp, roDir, busy, images>>
    /\ UNCHANGED procVars

\* lines 352-360 of cleanup and 450-457 of deduplicate
MaintEnd ==
    /\ maint.pc = "walk"
    /\ maint.todo = <<>>
    /\ maint.hashes = {}
    /\ stats' = IF maint.op = "cleanup"
                THEN [stats EXCEPT !.cleanup_count = @ + maint.count]
                ELSE stats
    /\ ret' = [Call(maint.op, "", TRUE, <<>>, "", maint.count)
                  EXCEPT !.args = maint.args]
    /\ maint' = NoMaint
    /\ UNCHANGED <<rows, files, now, pc, cur, dbUp, roDir, busy, images>>
    /\ UNCHANGED procVars

(***************************************************************************)
(* SpecConc: one thread puts while another runs cleanup or deduplicate, on *)
(* every store of up to two entries of the same image.                     *)
(***************************************************************************)
InitConc ==
    /\ now = 0
    /\ images = Disk
    /\ NoBatch
    /\ maint = NoMaint
    /\ \E present \in SUBSET Keys :
          /\ rows = [k \in present |->
                       NewRow(k, TRUE, st_size(Stored(A1, TRUE)),
                              get_image_hash("a.png"), now)]
          /\ files = [p \in {CachePath(k, TRUE) : k \in present} |->
                         Stored(A1, TRUE)]
    /\ stats = NewStats
    /\ pc = "idle"
    /\ cur = NoPut
    /\ ret = NoCall
    /\ dbUp = TRUE
    /\ roDir = FALSE
    /\ busy = FALSE

NextConc ==
    \/ \E k \in Keys : PutOpen(k, A1, "a.png", TRUE)
    \/ PutDump
    \/ PutClose
    \/ PutInsert
    \/ Tick
    \/ CleanupScan(0, 30, 0)
    \/ DedupScan
    \/ DedupSelect
    \/ MaintRemove
    \/ MaintEnd

SpecConc == InitConc /\ [][NextConc]_vars

\* C20: between the scan of a cleanup or deduplicate call and its last
\* removal no put commits a row, and the row a removal deletes is the row
\* the scan fetched, not one written since
ExclusiveMaintenance ==
    [][/\ (pc' = "idle" /\ \E k \in Keys : PutStep(k))
            => (maint.pc = "idle" \/ (maint.todo = <<>> /\ maint.hashes = {}))
       /\ (maint.pc = "walk" /\ maint.todo # <<>>)
            => \A k \in (DOMAIN rows) \ (DOMAIN rows') :
                  /\ rows[k].last_accessed = Head(maint.todo).last_accessed
                  /\ rows[k].size = Head(maint.todo).size]_vars

(***************************************************************************)
(* A backend invocation that does not return.  colors.get (line 113) runs  *)
(* the backend inside the worker thread; process_image_batch waits with    *)
(* as_completed(future_to_image) and future.result() (lines 78-80), both   *)
(* without a timeout, and _process_single_image has no timer of its own.   *)
(* A worker inside such a call executes no further statement.  The worker  *)
(* threads and the collecting thread are scheduled by the operating        *)
(* system: a statement that can be executed eventually is.                 *)
(***************************************************************************)
\* line 113: colors.get is entered and never returns
Hang(img) ==
    /\ tasks[img].pc = "compute"
    /\ tasks' = [tasks EXCEPT ![img].pc = "hung"]
    /\ UNCHANGED <<pstats, ccache, works, batch, events>>
    /\ UNCHANGED <<rows, files, stats, now, pc, cur, ret, dbUp, roDir, busy, images,
                   maint>>

NextHang ==
    \/ NextBatch
    \/ \E img \in BatchImgs : Hang(img)

SpecHang == InitBatch /\ [][NextHang]_vars /\ WF_vars(NextBatch)

\* C21: a batch in which a backend invocation hangs still returns
BoundedBackendInvocation ==
    (\E img \in BatchImgs : tasks[img].pc = "hung")
        ~> (batch.phase = "returned")

(***************************************************************************)
(* find_best_images (lines 123-169): the images of a directory are listed, *)
(* processed as one batch, scored and sorted.  image.get_image_dir is      *)
(* known by its contract: the images of the directory, in the order in     *)
(* which the directory yields them.  Directories of at most 20 images are  *)
(* considered, so that line 155 draws no sample.                           *)
(***************************************************************************)
BestImgs == {"a.png", "copy_of_a.png", "b.png"}

\* the candidate lists: two images of the directory, in either order
Listings ==
    {s \in [1..2 -> BestImgs] : s[1] # s[2]}

Counts == {1, 2}

\* the paths in the order in which str compares them
PathOrder == <<"a.png", "b.png", "copy_of_a.png">>

PathRank(path) == CHOOSE i \in 1..Len(PathOrder) : PathOrder[i] = path

\* line 168, scored_images.sort(reverse=True): the tuple (score, img_path,
\* color_scheme) of image x is greater than that of image y
Greater(scored, x, y) ==
    \/ FLess(scored[y], scored[x])
    \/ scored[x] = scored[y] /\ PathRank(x) > PathRank(y)

\* lines 161-165: the score of every scheme of the batch
Scored(results) ==
    [img \in DOMAIN results |-> calculate_image_score(results[img])]

\* lines 168-169: the images from the greatest tuple to the smallest
Ranked(scored) ==
    CHOOSE s \in [1..Cardinality(DOMAIN scored) -> DOMAIN scored] :
        \A i, j \in DOMAIN s : i < j => Greater(scored, s[i], s[j])

\* lines 168-169, for the scores of lines 161-165
RankedBatch(scored) ==
    [batch EXCEPT !.phase = "ranked", !.scored = scored,
                  !.best = Slice(Ranked(scored), batch.count)]

\* lines 158-169, after process_image_batch has returned
FindBest ==
    /\ batch.phase = "returned"
    /\ batch' = RankedBatch(Scored(batch.results))
    /\ UNCHANGED <<pstats, ccache, works, tasks, events>>
    /\ UNCHANGED <<rows, files, stats, now, pc, cur, ret, dbUp, roDir, busy, images,
                   maint>>

\* find_best_images is called with backends = ["wal"] on a directory whose
\* images all have a scheme, or all but b.png
InitBest ==
    /\ rows = [k \in {} |-> 0]
    /\ files = [p \in {} |-> 0]
    /\ stats = NewStats
    /\ now = 0
    /\ pc = "idle"
    /\ cur = NoPut
    /\ ret = NoCall
    /\ dbUp = TRUE
    /\ roDir = FALSE
    /\ busy = FALSE
    /\ images = Disk
    /\ maint = NoMaint
    /\ pstats = NewPStats
    /\ events = NoEvents
    /\ ccache = [x \in {} |-> 0]
    /\ works \in {{<<img, "wal">> : img \in BestImgs \ gone} :
                     gone \in {{}, {"b.png"}}}
    /\ \E listing \in Listings, count \in Counts :
          /\ tasks = [img \in {listing[i] : i \in DOMAIN listing} |->
                         QueuedTask]
          /\ batch = [phase |-> "running", backends |-> <<"wal">>,
                      results |-> [x \in {} |-> 0], before |-> ccache,
                      images |-> listing, count |-> count,
                      scored |-> [x \in {} |-> 0], best |-> <<>>]

NextBest ==
    \/ \E img \in DOMAIN tasks : StartTask(img)
    \/ \E img \in DOMAIN tasks : Load(img)
    \/ \E img \in DOMAIN tasks : Store(img)
    \/ \E img \in DOMAIN tasks : Check(img)
    \/ \E img \in DOMAIN tasks : Compute(img)
    \/ \E img \in DOMAIN tasks : Collect(img)
    \/ ReturnBatch
    \/ FindBest

SpecBest == InitBest /\ [][NextBest]_vars

\* the place of an image in the list of candidates
Position(img) == CHOOSE i \in DOMAIN batch.images : batch.images[i] = img

\* image x stands before image y when the images are sorted by score,
\* the greatest first, and images of equal score by their place in the
\* list of candidates
StatedBefore(x, y) ==
    \/ FLess(batch.scored[y], batch.scored[x])
    \/ batch.scored[x] = batch.scored[y] /\ Position(x) < Position(y)

\* C22: what find_best_images returns is sorted by score, the greatest
\* first, images of equal score stand in the order of the list of
\* candidates, and it is the first `count` images of that order
BestByScoreThenPosition ==
    batch.phase = "ranked" =>
        /\ Len(batch.best)
               = Min2(batch.count, Cardinality(DOMAIN batch.results))
        /\ \A i, j \in DOMAIN batch.best :
              i < j => StatedBefore(batch.best[i], batch.best[j])
        /\ \A i \in DOMAIN batch.best :
              \A x \in (DOMAIN batch.results)
                           \ {batch.best[j] : j \in DOMAIN batch.best} :
                  StatedBefore(batch.best[i], x)

(***************************************************************************)
(* _calculate_image_score on its own (src/pywal/parallel.py, lines         *)
(* 171-208): the scorer is called with one scheme after the other, and the *)
(* call before is kept next to the last one.                               *)
(***************************************************************************)
Olive == rgb_to_hex(136, 164, 38)
Mauve == rgb_to_hex(150, 80, 115)
Teal == rgb_to_hex(59, 178, 171)
Pink == rgb_to_hex(192, 51, 136)

\* strings that are no colours: letters that are no hexadecimal digits, and
\* two digits where six are read
NoHex == <<"#", "g", "g", "g", "g", "g", "g">>
Short == <<"#", "1", "2">>

\* the palette Warm with a string that is no colour in the second place
Marred == [Warm EXCEPT ![2] = Short]

ScorePalettes == {Greys, Warm, Marred}
ScoreSpecials ==
    {[background |-> Black, foreground |-> White],
     [background |-> Olive, foreground |-> Mauve],
     [background |-> Teal, foreground |-> Pink],
     [background |-> NoHex, foreground |-> White]}

\* self._calculate_image_score(color_scheme), lines 171-208
CalculateImageScore(color_scheme) ==
    /\ ret' = [NoCall EXCEPT
                  !.op = "_calculate_image_score",
                  !.args = color_scheme,
                  !.value = calculate_image_score(color_scheme),
                  !.pre = IF ret.op = "_calculate_image_score"
                          THEN <<ret.args, ret.value>>
                          ELSE <<>>]
    /\ UNCHANGED <<rows, files, stats, now, pc, cur, dbUp, roDir, busy, images>>
    /\ UNCHANGED <<procVars, maint>>

NextScore ==
    \E colours \in ScorePalettes, special \in ScoreSpecials :
        CalculateImageScore([colors |-> colours, special |-> special])

SpecScore == Init /\ [][NextScore]_vars

\* the scorer has returned twice: the scheme and the score of the call
\* before
TwoScores == ret.op = "_calculate_image_score" /\ ret.pre # <<>>
Before == [args |-> ret.pre[1], value |-> ret.pre[2]]

\* a string of the form #rrggbb
IsColour(color) ==
    /\ Len(color) = 7
    /\ color[1] = "#"
    /\ \A i \in 2..7 : HexValue(color[i]) >= 0

\* the contrast ratio of background and foreground: (lighter + 0.05) /
\* (darker + 0.05) of their luminances
Ratio(special) ==
    FDiv(FAdd(FMax(get_luminance(special.background).v,
                   get_luminance(special.foreground).v), Float("0.05")),
         FAdd(FMin(get_luminance(special.background).v,
                   get_luminance(special.foreground).v), Float("0.05")))

\* the two schemes have colours of background and foreground, the same
\* diversity and the same variance of saturations, and the last one has
\* the strictly greater contrast ratio
GreaterContrastOnly ==
    /\ TwoScores
    /\ \A sp \in {Before.args.special, ret.args.special} :
          IsColour(sp.background) /\ IsColour(sp.foreground)
    /\ diversity(color_values(Before.args)) = diversity(color_values(ret.args))
    /\ saturation_part(color_values(Before.args))
           = saturation_part(color_values(ret.args))
    /\ FLess(Ratio(Before.args.special), Ratio(ret.args.special))

\* C23 as stated: of two schemes with the same diversity and the same
\* variance of saturations, the one with the strictly greater contrast
\* ratio has the strictly greater score
StrictlyGreaterScore ==
    GreaterContrastOnly => FLess(Before.value, ret.value)

\* C23: of two schemes with the same diversity and the same variance of
\* saturations, the one with the strictly greater contrast ratio has no
\* smaller score (the score is a float: two contrasts that differ in the
\* last digits can round to one score)
NoSmallerScore ==
    GreaterContrastOnly => ~FLess(ret.value, Before.value)

\* a greater contrast ratio and the same score
GreaterContrastSameScore ==
    GreaterContrastOnly /\ Before.value = ret.value

\* a greater contrast ratio and a greater score
GreaterContrastGreaterScore ==
    GreaterContrastOnly /\ FLess(Before.value, ret.value)

\* C24 as stated: a background or foreground that is no colour adds
\* nothing for the contrast, and a palette colour that is no colour adds
\* nothing for the saturations; the other parts are counted
MalformedContributesNothing ==
    ret.op = "_calculate_image_score" =>
        /\ (~IsColour(ret.args.special.background)
               \/ ~IsColour(ret.args.special.foreground))
              => ret.value = FAdd(diversity(color_values(ret.args)),
                                  saturation_part(color_values(ret.args)))
        /\ (\E i \in 1..8 : ~IsColour(ret.args.colors[i]))
              => ret.value = FAdd(diversity(color_values(ret.args)),
                                  contrast_part(ret.args))

(***************************************************************************)
(* SpecDown: one key and every operation of the cache, on one instance     *)
(* after another, while the index database goes away and comes back.  The  *)
(* documents have three members, so a compressed put saves bytes.          *)
(***************************************************************************)
MaxSaved == 4      \* compression_saved, when a put begins, is below this
MaxRemoved == 1    \* cleanup_count, when a cleanup begins, is below this

NextDown ==
    \/ \E k \in StoreKeys : Get(k)
    \/ \E k \in StoreKeys, c \in BOOLEAN :
          stats.compression_saved < MaxSaved /\ PutOpen(k, A3, "", c)
    \/ PutDump
    \/ PutClose
    \/ PutInsert
    \/ \E S \in {0, 100 * MiB} : stats.cleanup_count < MaxRemoved /\ Cleanup(S, 30, 0)
    \/ Deduplicate
    \/ GetAnalytics
    \/ \E k \in StoreKeys : Remove(k)
    \/ ClearAll
    \/ Reopen
    \/ DbToggle
    \/ DirToggle

SpecDown == Init /\ [][NextDown]_vars

\* the calls that the store-unreachable rule names
PassThroughOps == {"get", "put", "cleanup", "deduplicate", "get_analytics"}

\* C25: a get, put, cleanup, deduplicate or get_analytics that ends while the
\* index database cannot be opened raises nothing; the get returns nothing
\* and counts one miss, the put returns failure, cleanup and deduplicate
\* return 0 and remove nothing, and get_analytics returns the statistics as
\* they were held before the call.
StoreUnreachablePassThrough ==
    [][(~dbUp /\ ret'.op \in PassThroughOps) =>
          /\ ret'.raised = ""
          /\ rows' = rows
          /\ ret'.op = "get" =>
                /\ ret'.value = <<>>
                /\ stats' = [stats EXCEPT !.miss_count = @ + 1]
          /\ ret'.op = "put" => ~ret'.ok
          /\ ret'.op \in {"cleanup", "deduplicate"} =>
                ret'.n = 0 /\ files' = files /\ stats' = stats
          /\ ret'.op = "get_analytics" =>
                ret'.value = <<stats>> /\ stats' = stats]_vars

\* get_analytics has returned the held statistics of a used cache while the
\* database was away
HeldStatsReturned ==
    /\ ~dbUp
    /\ ret.op = "get_analytics"
    /\ ret.value = <<stats>>
    /\ stats.hit_count > 0
    /\ stats.compression_saved > 0
    /\ stats.total_entries > 0

\* this step is a _remove_entry(k) that returns
RemoveStep(k) == ret'.op = "_remove_entry" /\ ret'.key = k

\* C26 (as stated): _remove_entry of a key without a row returns True, raises
\* nothing and changes no row and no file; a _remove_entry that follows a
\* _remove_entry of the same key changes no row and no file.
RemoveIdempotent ==
    [][\A k \in StoreKeys : RemoveStep(k) =>
          /\ ret'.raised = ""
          /\ k \notin DOMAIN rows =>
                ret'.ok /\ rows' = rows /\ files' = files
          /\ (ret.op = "_remove_entry" /\ ret.key = k) =>
                rows' = rows /\ files' = files]_vars

\* C26 (amended): the same, with True returned for a key without a row only
\* while the index database can be opened; while it cannot, False is
\* returned and still nothing changes.
RemoveIdempotentWhileReachable ==
    [][\A k \in StoreKeys : RemoveStep(k) =>
          /\ ret'.raised = ""
          /\ k \notin DOMAIN rows =>
                (ret'.ok <=> dbUp) /\ rows' = rows /\ files' = files
          /\ (ret.op = "_remove_entry" /\ ret.key = k) =>
                rows' = rows /\ files' = files]_vars

\* a second _remove_entry of a key has returned True after the first one
\* removed the key's row
RemovedTwice ==
    /\ ret.op = "_remove_entry"
    /\ ret.ok
    /\ ret.seen = <<FALSE>>
    /\ ret.pre = <<ret.key, TRUE, TRUE>>

\* C27: when clear_all returns True there is no row and no file, and the
\* statistics equal those of a new CacheStats (hit, miss and cleanup
\* counts, totals, compression savings, average access time, most accessed
\* and backend usage); a get that follows is a miss.
ClearAllResets ==
    [][/\ (ret'.op = "clear_all" /\ ret'.ok) =>
             /\ DOMAIN rows' = {}
             /\ DOMAIN files' = {}
             /\ stats' = NewStats
             /\ stats'.compression_saved = 0
             /\ stats'.avg_access_time = "0.0"
       /\ (ret.op = "clear_all" /\ ret.ok /\ ret'.op = "get") =>
             /\ ret'.value = <<>>
             /\ ret'.raised = ""
             /\ stats' = [stats EXCEPT !.miss_count = @ + 1]]_vars

\* clear_all has returned True on a cache that had counted a hit, a
\* cleanup, an entry and saved bytes
UsedCacheCleared ==
    /\ ret.op = "clear_all"
    /\ ret.ok
    /\ ret.pre[1].hit_count > 0
    /\ ret.pre[1].cleanup_count > 0
    /\ ret.pre[1].avg_access_time = "positive"
    /\ ret.pre[1].compression_saved > 0
    /\ ret.pre[1].total_entries > 0
    /\ ret.pre[1].most_accessed # <<>>

\* C28: the first get of an instance that was constructed right after a
\* successful put returns, for the key of that put, a document equal to the
\* one that was put.
PersistsAcrossInstances ==
    [][(ret.op = "__init__" /\ ret.pre # <<>> /\ ret'.op = "get"
                            /\ ret'.key = ret.pre[1]) =>
          /\ ret'.raised = ""
          /\ ret'.value = <<ret.pre[2]>>
          /\ rows' = [rows EXCEPT ![ret.pre[1]].access_count = @ + 1,
                                  ![ret.pre[1]].last_accessed = now]]_vars

\* a later instance has returned the three-member document of a compressed
\* put from its first get
ReadThroughLaterInstance ==
    /\ ret.op = "get"
    /\ ret.pre = <<ret.key, A3>>
    /\ ret.value = <<A3>>
    /\ stats.hit_count = 1
    /\ rows[ret.key].compressed

\* the sets of K entries (all entries, when there are fewer) that cleanup
\* may protect: no entry outside ranks strictly above one inside
ProtectedSets(K) ==
    {P \in SUBSET DOMAIN rows :
        /\ Cardinality(P) = Min2(K, Cardinality(DOMAIN rows))
        /\ \A a \in P, b \in (DOMAIN rows) \ P : RanksAtLeast(a, b)}

\* the orders (lastAccessedAt ascending, accessCount ascending) of the
\* entries ks
WalkOrders(ks) ==
    {s \in [1..Cardinality(ks) -> ks] :
        /\ \A i, j \in 1..Cardinality(ks) : i # j => s[i] # s[j]
        /\ \A i, j \in 1..Cardinality(ks) :
              i < j => \/ rows[s[i]].last_accessed < rows[s[j]].last_accessed
                       \/ /\ rows[s[i]].last_accessed = rows[s[j]].last_accessed
                          /\ rows[s[i]].access_count <= rows[s[j]].access_count}

\* the candidates among the first i of the walk s that the stated rule
\* removes
RECURSIVE RuleRemoved(_, _, _, _)
RuleRemoved(s, i, S, max_age_seconds) ==
    IF i = 0 THEN {}
    ELSE IF \/ now - rows[s[i]].last_accessed > max_age_seconds
            \/ TotalSize(rows) - SumSizes(rows, RuleRemoved(s, i - 1, S, max_age_seconds)) > S
         THEN RuleRemoved(s, i - 1, S, max_age_seconds) \cup {s[i]}
         ELSE RuleRemoved(s, i - 1, S, max_age_seconds)

\* the set removed is the one the stated rule gives for cleanup's arguments
\* S (bytes), D (days) and K
StatedSet(removed, S, D, K) ==
    IF TotalSize(rows) <= S /\ Cardinality(DOMAIN rows) < HardCeiling
    THEN removed = {}
    ELSE \E P \in ProtectedSets(K) : \E s \in WalkOrders((DOMAIN rows) \ P) :
            removed = RuleRemoved(s, Len(s), S, D * Day)

\* the entries of the keys removed, with their files, are gone, every
\* other entry and file is as before, and the count returned is that of
\* the keys removed
RemovedAndCounted(removed) ==
    /\ rows' = [k \in (DOMAIN rows) \ removed |-> rows[k]]
    /\ files' = [p \in (DOMAIN files) \ {rows[k].file_path : k \in removed}
                    |-> files[p]]
    /\ ret'.n = Cardinality(removed)
    /\ ret'.raised = ""

\* C29: cleanup removes exactly the entries given by the stated
\* rule and returns their number: none when the total size is at most
\* maxSizeBytes and there are fewer than 1000 entries; otherwise, walking the
\* non-protected candidates in (lastAccessedAt, accessCount) ascending
\* order, a candidate is removed iff it is older than the maximum age or
\* the total size before cleanup minus the bytes freed so far exceeds
\* maxSizeBytes.
CleanupRemovesStatedSet ==
    [][CleanupStep =>
          /\ RemovedAndCounted((DOMAIN rows) \ (DOMAIN rows'))
          /\ StatedSet((DOMAIN rows) \ (DOMAIN rows'),
                       ret'.args[1], ret'.args[2], ret'.args[3])]_vars

\* C30: a get hit on key k adds exactly 1 to k's access_count, sets k's
\* last_accessed to the current time and adds exactly 1 to the hit count; the
\* miss count, the other columns of k's row (size, backend, image_hash, file
\* path, compressed flag), every file and every other row stay as they were.
HitFrame ==
    [][\A k \in Keys : HitStep(k) =>
          /\ rows'[k].access_count = rows[k].access_count + 1
          /\ rows'[k].last_accessed = now
          /\ stats'.hit_count = stats.hit_count + 1
          /\ stats'.miss_count = stats.miss_count
          /\ rows'[k].size = rows[k].size
          /\ rows'[k].backend = rows[k].backend
          /\ rows'[k].image_hash = rows[k].image_hash
          /\ rows'[k].file_path = rows[k].file_path
          /\ rows'[k].compressed = rows[k].compressed
          /\ files' = files
          /\ DOMAIN rows' = DOMAIN rows
          /\ \A j \in (DOMAIN rows) \ {k} : rows'[j] = rows[j]]_vars

\* a get has hit an entry an hour after it was put, next to another entry
\* that was never read
HitNextToOtherEntry ==
    /\ ret.op = "get"
    /\ ret.via = "hit"
    /\ now > 0
    /\ rows[ret.key].last_accessed = now
    /\ rows[ret.key].access_count = 1
    /\ stats.hit_count = 1
    /\ \E j \in (DOMAIN rows) \ {ret.key} :
          rows[j].access_count = 0 /\ rows[j].last_accessed < now

\* C31: when key k has a row, the index database can be opened and the file
\* of the row cannot be deleted, a _remove_entry(k) leaves no row of k (the
\* row is deleted although the bytes stay).
RowGoneWhenUnlinkFails ==
    [][\A k \in StoreKeys :
          (/\ RemoveStep(k)
           /\ dbUp
           /\ roDir
           /\ k \in DOMAIN rows
           /\ rows[k].file_path \in DOMAIN files) => k \notin DOMAIN rows']_vars

\* the file has another size or another modification time than at the call
\* before
SizeOrMtimeChanged ==
    /\ ret.seen # <<>>
    /\ ret'.seen # <<>>
    /\ \/ ret'.seen[1].size # ret.seen[1].size
       \/ ret'.seen[1].mtime # ret.seen[1].mtime

\* C32: a call of generate_cache_key with the path and the parameters of
\* the call before, on a file whose size or modification time has changed
\* since (by however little), hashes a different string.
KeyInvalidation ==
    [][(KeyStep /\ SameCall /\ SizeOrMtimeChanged) => ret'.pre # ret.pre]_vars

\* when the batch was called, the cache held a parsable scheme file for
\* image img under the first backend of the list
CachedUnderFirst(img) ==
    /\ <<img, batch.backends[1]>> \in DOMAIN batch.before
    /\ batch.before[<<img, batch.backends[1]>>].ok

\* this step is the write of `stats[ctr] += 1` by the task of image img
CounterStep(img, ctr) ==
    /\ tasks[img].pc = "store"
    /\ tasks[img].ctr = ctr
    /\ tasks'[img].pc # "store"

\* C33: the task of an image that has a cached scheme under the first
\* backend never calls colors.get and never counts a miss, its one update
\* of cache_hits raises the counter by exactly 1, and it returns the cached
\* scheme.
CacheFirstLookup ==
    [][\A img \in BatchImgs : CachedUnderFirst(img) =>
          /\ tasks'[img].pc # "compute"
          /\ tasks'[img].ctr # "cache_misses"
          /\ tasks'[img].i <= 1
          /\ CounterStep(img, "cache_hits") =>
                /\ pstats'.cache_hits = pstats.cache_hits + 1
                /\ pstats'.cache_misses = pstats.cache_misses
          /\ tasks'[img].pc = "finished" =>
                tasks'[img].result =
                    <<batch.before[<<img, batch.backends[1]>>].data>>]_vars

\* the map that the images, the backend list, the cache as it was when the
\* batch was called and the set of working backends determine
DeterminedResults ==
    [img \in {x \in BatchImgs : FirstResult(x, 1) # <<>>} |->
        FirstResult(img, 1)[1]]

\* C34: whatever the interleaving of the workers and the order in which
\* the tasks complete and are collected, the map a batch returns is the
\* one its inputs determine: the same keys and the same scheme under each.
OrderIndependence ==
    batch.phase = "returned" => batch.results = DeterminedResults

\* a batch has returned both images, one from the second backend, after
\* its workers interleaved so closely that an update of a counter was lost
InterleavedBatchReturned ==
    /\ batch.phase = "returned"
    /\ DOMAIN batch.results = BatchImgs
    /\ batch.results["a.png"].backend = BackendOrder[2]
    /\ batch.results["b.png"].backend = BackendOrder[1]
    /\ pstats.backend_attempts[BackendOrder[1]] = 1
    /\ events.backend_attempts[BackendOrder[1]] = 2

(***************************************************************************)
(* SpecRange: _calculate_image_score on palettes of 3, 16 and 32 colours.  *)
(***************************************************************************)
\* 3 colours
Few == <<Black, Olive, White>>

\* 16 different colours, the first 8 in turn without and with full
\* saturation
Vivid ==
    [i \in 1..16 |-> IF i % 2 = 1 THEN rgb_to_hex(17 * (i - 1), 17 * (i - 1), 17 * (i - 1))
                     ELSE rgb_to_hex(255 - 8 * i, 0, 0)]

\* 32 different colours, the first 8 as in Vivid
Wide ==
    [i \in 1..32 |-> IF i % 2 = 1 THEN rgb_to_hex(8 * (i - 1), 8 * (i - 1), 8 * (i - 1))
                     ELSE rgb_to_hex(255 - 4 * i, 0, 0)]

RangePalettes == {Few, Vivid, Wide}

NextRange ==
    \E colours \in RangePalettes, special \in ScoreSpecials :
        CalculateImageScore([colors |-> colours, special |-> special])

SpecRange == Init /\ [][NextRange]_vars

\* 0.0 <= x <= 1.0
InUnitInterval(x) == ~FLess(x, Float("0.0")) /\ ~FLess(Float("1.0"), x)

TotalsRecomputed ==
    [][(dbUp /\ ret'.op = "get_analytics") =>
          /\ ret'.value = <<stats'>>
          /\ stats'.total_entries = Cardinality(DOMAIN rows')
          /\ stats'.total_size = TotalSize(rows')]_vars

\* get_analytics has returned the totals of a cache with an entry, and the
\* totals held before the call were different
TotalsCorrected ==
    /\ dbUp
    /\ ret.op = "get_analytics"
    /\ DOMAIN rows # {}
    /\ ret.pre[1].total_entries # Cardinality(DOMAIN rows)
    /\ ret.pre[1].total_size # TotalSize(rows)
    /\ stats.total_entries = Cardinality(DOMAIN rows)
    /\ stats.total_size = TotalSize(rows)

(***************************************************************************)
(* SpecBusy: gets, puts and clears of one instance on one key while        *)
(* another process reads the index from time to time and scheme files get  *)
(* lost or damaged.                                                        *)
(***************************************************************************)
NextBusy ==
    \/ \E k \in StoreKeys : Get(k)
    \/ \E k \in StoreKeys, c \in BOOLEAN : PutOpen(k, A3, "", c)
    \/ PutDump
    \/ PutClose
    \/ PutInsert
    \/ ClearAll
    \/ \E p \in Paths(StoreKeys) : DeleteFile(p)
    \/ \E p \in Paths(StoreKeys) : GarbleFile(p)
    \/ DbToggle
    \/ ReaderToggle

SpecBusy == Init /\ [][NextBusy]_vars

\* C37: every get that returns adds 1 to exactly one of hit_count and
\* miss_count and leaves the other as it was (so that, one call at a time,
\* the sum of the two is the number of gets completed since the instance was
\* made or last cleared).
GetCountsOnce ==
    [][(ret'.op = "get" /\ ret'.raised = "") =>
          \/ /\ stats'.hit_count = stats.hit_count + 1
             /\ stats'.miss_count = stats.miss_count
          \/ /\ stats'.hit_count = stats.hit_count
             /\ stats'.miss_count = stats.miss_count + 1]_vars

(***************************************************************************)
(* SpecCalm: every operation of the cache on one key, on one instance      *)
(* after another, with no fault of the environment: the database can be   *)
(* opened, files can be created and deleted, and no other process touches  *)
(* the cache.  A put can still fail, in json.dump.                         *)
(***************************************************************************)
NextCalm ==
    \/ \E k \in StoreKeys : Get(k)
    \/ \E k \in StoreKeys, c \in BOOLEAN :
          stats.compression_saved < MaxSaved /\ PutOpen(k, A3, "", c)
    \/ PutDump
    \/ PutClose
    \/ PutInsert
    \/ \E S \in {0, 100 * MiB} : stats.cleanup_count < MaxRemoved /\ Cleanup(S, 30, 0)
    \/ Deduplicate
    \/ \E k \in StoreKeys : Remove(k)
    \/ ClearAll
    \/ Reopen

SpecCalm == Init /\ [][NextCalm]_vars

\* C38: between two calls, every file of the schemes directory is the
\* file_path of exactly one row of cache_entries, whatever puts (returning
\* True or False, compressed or not, on new or existing keys), gets,
\* removals, cleanups, deduplications and clears came before.
NoOrphanedFiles ==
    pc = "idle" =>
        \A p \in DOMAIN files :
            Cardinality({k \in DOMAIN rows : rows[k].file_path = p}) = 1

\* a comes before b in every order by (lastAccessedAt ascending,
\* accessCount ascending)
PlacedBefore(a, b) ==
    \/ rows[a].last_accessed < rows[b].last_accessed
    \/ /\ rows[a].last_accessed = rows[b].last_accessed
       /\ rows[a].access_count < rows[b].access_count

\* C39: a cleanup in which no removal can fail evicts a prefix of the
\* candidate order: for some set of protected entries that all survive, a
\* candidate that survives is followed in the order (lastAccessedAt
\* ascending, accessCount ascending) by survivors only.
EvictsPrefix ==
    [][(ret'.op = "cleanup" /\ dbUp /\ ~roDir /\ ~busy) =>
          \E P \in ProtectedSets(ret'.args[3]) :
              /\ P \subseteq DOMAIN rows'
              /\ \A a, b \in (DOMAIN rows) \ P :
                    (a \in DOMAIN rows' /\ PlacedBefore(a, b))
                        => b \in DOMAIN rows']_vars

\* a cleanup that protects nothing has evicted entries and has kept others,
\* all of them accessed an hour ago
EvictedSomeKeptOthers ==
    /\ ret.op = "cleanup"
    /\ ret.args[3] = 0
    /\ ret.n >= 1
    /\ ~roDir
    /\ stats.cleanup_count = ret.n
    /\ DOMAIN rows # {}
    /\ \A k \in DOMAIN rows : rows[k].last_accessed = now - Hour

\* C40: in every state during and after process_image_batch, whatever the
\* interleaving of the workers, no backend has more successes than attempts
\* in the statistics, and the cache hits and cache misses together are at
\* most the attempts of all backends together.
CountersOrdered ==
    /\ \A b \in BackendNames :
          pstats.backend_successes[b] <= pstats.backend_attempts[b]
    /\ pstats.cache_hits + pstats.cache_misses
          <= pstats.backend_attempts["wal"] + pstats.backend_attempts["colorz"]
====
